---- MODULE Spec2Model ----
(***************************************************************************)
(* A model of the JSON -> SQL/CSV converter: the flattener                 *)
(* (server/lib/json-parser.ts), the SQL and CSV generators                 *)
(* (server/lib/sql-generator.ts, generateCSV), the payment gate and the    *)
(* checkout of the HTTP routes (server/routes.ts, server/storage.ts), and  *)
(* the Converter page's handling of the paid session (client).             *)
(*                                                                         *)
(* A JSON value is a tagged record:                                        *)
(*   [t |-> "null"], [t |-> "bool", v |-> BOOLEAN], [t |-> "num", v |-> n],*)
(*   [t |-> "str", v |-> STRING], [t |-> "arr", items |-> Seq(value)],     *)
(*   [t |-> "obj", entries |-> Seq([key, value])]                          *)
(* An object keeps its entries in the order Object.entries returns them.   *)
(* A JavaScript record (Record<string, any>) built by the flattener is the *)
(* sequence of its [key, value] entries in insertion order.                *)
(* Numbers are integers in the flattener's inputs (the generators' inputs   *)
(* add a fraction and an infinity); JSON.parse never yields undefined, so  *)
(* the flattener's undefined tests are the null tests.  No key is an       *)
(* integer index ("0", "1", ...), which JavaScript would order first.      *)
(***************************************************************************)
EXTENDS Integers, Sequences, FiniteSets, TLC

VARIABLES input, pc, data, maxNestingLevel, objectCount,
          tableName, output, earlier,
          paidSessions, webhookSecret, request, response, completed,
          stripeSecretKey, uuids, pendingConversions, checkouts,
          successCalls, delivered, browser

\* the flattener's call: its argument and its result
parserVars == <<input, data, maxNestingLevel, objectCount>>
\* a generator's call on the records in data: the table name and the result;
\* earlier is the result of the call before, when a call is repeated
generatorVars == <<tableName, output, earlier>>
\* the server: the paid sessions, its environment, the request being served,
\* its response, and the sessions whose completed checkout was processed
\* the checkout: whether STRIPE_SECRET_KEY is set, the number of UUIDs drawn,
\* the storage's pending conversions, the checkout sessions created at Stripe,
\* the GET /api/success calls in progress, the number of responses that
\* carried each pending session's output, and the customer's browser
checkoutVars == <<stripeSecretKey, uuids, pendingConversions, checkouts,
                  successCalls, delivered, browser>>
serverVars == <<paidSessions, webhookSecret, request, response, completed,
                checkoutVars>>

vars == <<pc, parserVars, generatorVars, serverVars>>

\* no generator was called
NoOutput == [kind |-> "none"]
GeneratorsIdle == tableName = <<>> /\ output = NoOutput /\ earlier = NoOutput
\* no request was served
NoRequest == [route |-> "none"]
\* a browser that loaded no page
NoBrowser == [mounted |-> FALSE]
\* no checkout was begun
CheckoutIdle ==
  /\ stripeSecretKey = FALSE
  /\ uuids = 0
  /\ pendingConversions = <<>>
  /\ checkouts = {}
  /\ successCalls = {}
  /\ delivered = <<>>
  /\ browser = NoBrowser
ServerIdle ==
  /\ paidSessions = {}
  /\ webhookSecret = FALSE
  /\ request = NoRequest
  /\ response = NoRequest
  /\ completed = {}
  /\ CheckoutIdle

(***************************************************************************)
(* JSON values                                                             *)
(***************************************************************************)
JNull == [t |-> "null"]
JBool(b) == [t |-> "bool", v |-> b]
JNum(n) == [t |-> "num", v |-> n]
JStr(s) == [t |-> "str", v |-> s]
JArr(items) == [t |-> "arr", items |-> items]
JObj(entries) == [t |-> "obj", entries |-> entries]
Entry(k, v) == [key |-> k, value |-> v]

\* typeof x === 'string' || 'number' || 'boolean'
IsPrimitive(x) == x.t \in {"bool", "num", "str"}
\* null | boolean | number | string
IsScalar(x) == x.t \in {"null", "bool", "num", "str"}
\* Object.values(obj) of an array or an object
ObjectValues(x) ==
  IF x.t = "arr" THEN x.items
  ELSE [i \in 1..Len(x.entries) |-> x.entries[i].value]

\* the text Array.prototype.join gives an element: String(x) of a primitive,
\* the empty text for null
JSString(x) ==
  IF x.t = "str" THEN x.v
  ELSE IF x.t = "num" THEN ToString(x.v)
  ELSE IF x.t = "bool" THEN (IF x.v THEN "true" ELSE "false")
  ELSE ""

(***************************************************************************)
(* JavaScript records: own properties in insertion order                   *)
(***************************************************************************)
HasOwnProperty(rec, k) == \E i \in 1..Len(rec) : rec[i].key = k
GetField(rec, k) == rec[CHOOSE i \in 1..Len(rec) : rec[i].key = k].value
\* rec[k] = v : an existing property keeps its place, a new one is appended
SetField(rec, k, v) ==
  IF HasOwnProperty(rec, k)
  THEN [i \in 1..Len(rec) |-> IF rec[i].key = k THEN Entry(k, v) ELSE rec[i]]
  ELSE Append(rec, Entry(k, v))
\* { ...a, ...b }
RECURSIVE Spread(_, _)
Spread(a, b) ==
  IF b = <<>> THEN a
  ELSE Spread(SetField(a, Head(b).key, Head(b).value), Tail(b))
ObjectKeys(rec) == [i \in 1..Len(rec) |-> rec[i].key]

(***************************************************************************)
(* getNestingLevel                                                         *)
(***************************************************************************)
RECURSIVE getNestingLevel(_, _)
RECURSIVE maxLevelOver(_, _, _)
\* the for loop of getNestingLevel: maxLevel = Math.max(maxLevel, level)
maxLevelOver(values, currentLevel, maxLevel) ==
  IF values = <<>> THEN maxLevel
  ELSE LET level == getNestingLevel(Head(values), currentLevel + 1)
       IN maxLevelOver(Tail(values), currentLevel,
                       IF level > maxLevel THEN level ELSE maxLevel)
\* a variant of getNestingLevel in which only a container child adds a level
RECURSIVE getNestingLevel_containersOnly(_, _)
getNestingLevel_containersOnly(obj, currentLevel) ==
  IF obj.t \notin {"arr", "obj"} THEN currentLevel
  ELSE LET values == ObjectValues(obj)
           RECURSIVE over(_, _)
           over(i, maxLevel) ==
             IF i > Len(values) THEN maxLevel
             ELSE LET level == IF values[i].t \in {"arr", "obj"}
                               THEN getNestingLevel_containersOnly(values[i], currentLevel + 1)
                               ELSE currentLevel
                  IN over(i + 1, IF level > maxLevel THEN level ELSE maxLevel)
       IN over(1, currentLevel)
getNestingLevel(obj, currentLevel) ==
  IF obj.t \notin {"arr", "obj"} THEN currentLevel
  ELSE maxLevelOver(ObjectValues(obj), currentLevel, currentLevel)

(***************************************************************************)
(* explodeObject                                                           *)
(***************************************************************************)
\* obj.every(item => item === null || typeof item is string/number/boolean)
allPrimitives(items) == \A i \in 1..Len(items) : IsScalar(items[i])
\* a variant of filterNonNull that filters nothing
filterNonNull_keepNulls(items) == items
\* obj.filter(x => x !== null && x !== undefined)
RECURSIVE filterNonNull(_)
filterNonNull(items) ==
  IF items = <<>> THEN <<>>
  ELSE IF Head(items).t = "null" THEN filterNonNull(Tail(items))
  ELSE <<Head(items)>> \o filterNonNull(Tail(items))
\* items.join(', ')
RECURSIVE joinItems(_)
joinItems(items) ==
  IF items = <<>> THEN ""
  ELSE IF Len(items) = 1 THEN JSString(Head(items))
  ELSE JSString(Head(items)) \o ", " \o joinItems(Tail(items))
\* a variant of joinPrimitives that keeps the array instead of joining it
joinPrimitives_raw(items) == JArr(items)
joinPrimitives(items) == JStr(joinItems(filterNonNull(items)))

\* prefix || 'value'
valueKey(prefix) == IF prefix # "" THEN prefix ELSE "value"
\* a variant of indexKey with one index column for every array
indexKey_single(prefix, arrayLevel) == "_index"
\* prefix ? `${prefix}_index` : `_index_level_${arrayLevel}`
indexKey(prefix, arrayLevel) ==
  IF prefix # "" THEN prefix \o "_index"
  ELSE "_index_level_" \o ToString(arrayLevel)
\* a variant of fullKey that drops the prefix
fullKey_noPrefix(prefix, key) == key
\* prefix ? `${prefix}_${key}` : key
fullKey(prefix, key) == IF prefix # "" THEN prefix \o "_" \o key ELSE key
\* sourcePath || prefix || 'root'
arraySourcePath(sourcePath, prefix) ==
  IF sourcePath # "" THEN sourcePath ELSE IF prefix # "" THEN prefix ELSE "root"
\* sourcePath || fullKey
entrySourcePath(sourcePath, fk) == IF sourcePath # "" THEN sourcePath ELSE fk

\* a variant of mergeSingleRecord in which the nested record's fields win
mergeSingleRecord_overwrite(baseContext, singleRecord) == Spread(baseContext, singleRecord)
\* a variant of unionResult that also returns the base record as a row
unionResult_withBase(baseContext, nestedExplosions) ==
  <<baseContext>> \o [j \in 1..Len(nestedExplosions) |-> Spread(baseContext, nestedExplosions[j])]
\* a variant of unionResult that returns the nested explosions as they are
unionResult_noOverlay(baseContext, nestedExplosions) ==
  IF Len(nestedExplosions) > 0 THEN nestedExplosions ELSE <<baseContext>>
\* the merge of a single nested record into baseContext: fields already
\* present are skipped
RECURSIVE mergeSingleRecord(_, _)
mergeSingleRecord(baseContext, singleRecord) ==
  IF singleRecord = <<>> THEN baseContext
  ELSE LET e == Head(singleRecord)
       IN mergeSingleRecord(
            IF ~HasOwnProperty(baseContext, e.key)
            THEN SetField(baseContext, e.key, e.value) ELSE baseContext,
            Tail(singleRecord))

\* a variant of unionResult without the fallback to the single base record
unionResult_noFallback(baseContext, nestedExplosions) ==
  [j \in 1..Len(nestedExplosions) |-> Spread(baseContext, nestedExplosions[j])]

\* the final union: nestedExplosions.map(rec => ({ ...baseContext, ...rec }))
unionResult(baseContext, nestedExplosions) ==
  IF Len(nestedExplosions) > 0
  THEN [j \in 1..Len(nestedExplosions) |-> Spread(baseContext, nestedExplosions[j])]
  ELSE <<baseContext>>

RECURSIVE explodeObject(_, _, _, _, _)
RECURSIVE explodeItems(_, _, _, _, _, _)
RECURSIVE explodeEntries(_, _, _, _, _, _, _)

\* obj.forEach((item, idx) => ...) of the object-array branch, from index idx
\* (0-based) on; the records of the items in element order
explodeItems(items, idx, prefix, parentContext, sourcePath, arrayLevel) ==
  IF idx >= Len(items) THEN <<>>
  ELSE LET newSourcePath == arraySourcePath(sourcePath, prefix)
           itemRecords == explodeObject(items[idx + 1], prefix,
                            SetField(parentContext, indexKey(prefix, arrayLevel), JNum(idx)),
                            newSourcePath, arrayLevel + 1)
       IN itemRecords \o explodeItems(items, idx + 1, prefix, parentContext,
                                      sourcePath, arrayLevel)

\* a variant of explodeEntry that explodes an object array once per record
\* collected so far (a Cartesian product of sibling arrays, not their union)
explodeEntry_product(e, prefix, baseContext, nestedExplosions, sourcePath, arrayLevel) ==
  LET fk == fullKey(prefix, e.key)
      value == e.value
      RECURSIVE perRecord(_)
      perRecord(recs) ==
        IF recs = <<>> THEN <<>>
        ELSE explodeObject(value, fk, Spread(baseContext, Head(recs)),
                           entrySourcePath(sourcePath, fk), arrayLevel + 1)
             \o perRecord(Tail(recs))
  IN IF value.t = "null"
     THEN [baseContext |-> SetField(baseContext, fk, JNull),
           nestedExplosions |-> nestedExplosions]
     ELSE IF IsPrimitive(value)
     THEN [baseContext |-> SetField(baseContext, fk, value),
           nestedExplosions |-> nestedExplosions]
     ELSE IF value.t = "arr"
     THEN IF Len(value.items) = 0
          THEN [baseContext |-> SetField(baseContext, fk, JNull),
                nestedExplosions |-> nestedExplosions]
          ELSE IF allPrimitives(value.items)
          THEN [baseContext |-> SetField(baseContext, fk, joinPrimitives(value.items)),
                nestedExplosions |-> nestedExplosions]
          ELSE [baseContext |-> baseContext,
                nestedExplosions |->
                  IF nestedExplosions = <<>>
                  THEN explodeObject(value, fk, baseContext,
                                     entrySourcePath(sourcePath, fk), arrayLevel + 1)
                  ELSE perRecord(nestedExplosions)]
     ELSE LET nestedRecords == explodeObject(value, fk, baseContext, sourcePath, arrayLevel)
          IN IF Len(nestedRecords) > 1
             THEN [baseContext |-> baseContext,
                   nestedExplosions |-> nestedExplosions \o nestedRecords]
             ELSE IF Len(nestedRecords) = 1
             THEN [baseContext |-> mergeSingleRecord(baseContext, nestedRecords[1]),
                   nestedExplosions |-> nestedExplosions]
             ELSE [baseContext |-> baseContext, nestedExplosions |-> nestedExplosions]

\* one entry of the for loop over Object.entries(obj): the new
\* [baseContext, nestedExplosions]
explodeEntry(e, prefix, baseContext, nestedExplosions, sourcePath, arrayLevel) ==
  LET fk == fullKey(prefix, e.key)
      value == e.value
  IN IF value.t = "null"
     THEN [baseContext |-> SetField(baseContext, fk, JNull),
           nestedExplosions |-> nestedExplosions]
     ELSE IF IsPrimitive(value)
     THEN [baseContext |-> SetField(baseContext, fk, value),
           nestedExplosions |-> nestedExplosions]
     ELSE IF value.t = "arr"
     THEN IF Len(value.items) = 0
          THEN [baseContext |-> SetField(baseContext, fk, JNull),
                nestedExplosions |-> nestedExplosions]
          ELSE IF allPrimitives(value.items)
          THEN [baseContext |-> SetField(baseContext, fk, joinPrimitives(value.items)),
                nestedExplosions |-> nestedExplosions]
          ELSE LET arrayRecords == explodeObject(value, fk, baseContext,
                                     entrySourcePath(sourcePath, fk), arrayLevel + 1)
               IN [baseContext |-> baseContext,
                   nestedExplosions |-> nestedExplosions \o arrayRecords]
     ELSE LET nestedRecords == explodeObject(value, fk, baseContext, sourcePath, arrayLevel)
          IN IF Len(nestedRecords) > 1
             THEN [baseContext |-> baseContext,
                   nestedExplosions |-> nestedExplosions \o nestedRecords]
             ELSE IF Len(nestedRecords) = 1
             THEN [baseContext |-> mergeSingleRecord(baseContext, nestedRecords[1]),
                   nestedExplosions |-> nestedExplosions]
             ELSE [baseContext |-> baseContext, nestedExplosions |-> nestedExplosions]

\* the for loop over Object.entries(obj), from entry i (1-based) on, followed
\* by the final union
explodeEntries(entries, i, prefix, baseContext, nestedExplosions, sourcePath, arrayLevel) ==
  IF i > Len(entries) THEN unionResult(baseContext, nestedExplosions)
  ELSE LET st == explodeEntry(entries[i], prefix, baseContext, nestedExplosions,
                              sourcePath, arrayLevel)
       IN explodeEntries(entries, i + 1, prefix, st.baseContext, st.nestedExplosions,
                         sourcePath, arrayLevel)

explodeObject(obj, prefix, parentContext, sourcePath, arrayLevel) ==
  IF obj.t = "null"
  THEN <<SetField(parentContext, valueKey(prefix), JNull)>>
  ELSE IF IsPrimitive(obj)
  THEN <<SetField(parentContext, valueKey(prefix), obj)>>
  ELSE IF obj.t = "arr"
  THEN IF Len(obj.items) = 0
       THEN <<SetField(parentContext, prefix, JNull)>>
       ELSE IF allPrimitives(obj.items)
       THEN <<SetField(parentContext, prefix, joinPrimitives(obj.items))>>
       ELSE LET allRecords == explodeItems(obj.items, 0, prefix, parentContext,
                                           sourcePath, arrayLevel)
            IN IF Len(allRecords) > 0 THEN allRecords ELSE <<parentContext>>
  ELSE explodeEntries(obj.entries, 1, prefix, parentContext, <<>>, sourcePath, arrayLevel)

\* explodeObject(parsed) with the default arguments
flatten(parsed) == explodeObject(parsed, "", <<>>, "", 0)

(***************************************************************************)
(* Inputs                                                                  *)
(***************************************************************************)
Scalars == {JNull, JNum(1), JStr("x")}
Keys == {"a", "a_a"}
\* the largest number of nodes (scalars, arrays, objects) of a generated input
MaxNodes == 4
\* the largest length of an array of a structured input
MaxLen == 2

\* the sequences of n distinct keys: an object has no key twice
KeySeqs(n) == {ks \in [1..n -> Keys] : \A i, j \in 1..n : i # j => ks[i] # ks[j]}

RECURSIVE ValuesOfSize(_)
RECURSIVE ItemSeqs(_)
\* the sequences of values with n nodes in all
ItemSeqs(n) ==
  IF n = 0 THEN {<<>>}
  ELSE UNION {{<<v>> \o s : v \in ValuesOfSize(k), s \in ItemSeqs(n - k)} : k \in 1..n}
\* the JSON values with exactly n nodes
ValuesOfSize(n) ==
  LET seqs == ItemSeqs(n - 1)
  IN (IF n = 1 THEN Scalars ELSE {})
     \cup {JArr(s) : s \in seqs}
     \cup UNION {{JObj([i \in 1..Len(s) |-> Entry(ks[i], s[i])]) : ks \in KeySeqs(Len(s))}
                 : s \in seqs}
\* every JSON value of at most MaxNodes nodes over Scalars and Keys
SmallValues == UNION {ValuesOfSize(n) : n \in 1..MaxNodes}

\* the sequences over S of a length in lo..hi
SeqsOver(S, lo, hi) == UNION {[1..n -> S] : n \in lo..hi}

\* element objects of an array of objects
ElemObjs == {JObj(<<Entry("id", JNum(1))>>), JObj(<<Entry("index", JStr("x"))>>)}
\* an array either as the entry's value or reached through a nested plain object
Reach(nested, arr) == IF nested THEN JObj(<<Entry("list", arr)>>) ELSE arr
\* documents with two sibling arrays of objects, optionally after a scalar entry
SiblingArrayDocs ==
  {JObj(lead \o <<Entry("users", Reach(w[1], JArr(s1))), Entry("orders", Reach(w[2], JArr(s2)))>>)
     : lead \in {<<>>, <<Entry("company", JStr("Acme"))>>},
       w \in BOOLEAN \X BOOLEAN,
       s1 \in SeqsOver(ElemObjs, 0, MaxLen),
       s2 \in SeqsOver(ElemObjs, 0, MaxLen)}
\* arrays nested directly in arrays, at the root or under a key
NestedArrayDocs ==
  LET inner == {JArr(s) : s \in SeqsOver(ElemObjs, 1, MaxLen)}
      outer == {JArr(s) : s \in SeqsOver(inner, 1, MaxLen)}
  IN outer \cup {JObj(<<Entry("m", o)>>) : o \in outer}
\* an array of primitives and nulls under a key
PrimitiveArrayDocs ==
  {JObj(<<Entry("tags", JArr(s))>>)
     : s \in SeqsOver({JNull, JBool(TRUE), JBool(FALSE), JNum(2), JStr("x"), JStr("y")}, 0, MaxLen)}
\* the documented examples
UnionExample ==
  JObj(<<Entry("company", JStr("Acme")),
         Entry("users", JArr(<<JObj(<<Entry("id", JNum(1))>>), JObj(<<Entry("id", JNum(2))>>)>>)),
         Entry("orders", JArr(<<JObj(<<Entry("id", JStr("A"))>>)>>))>>)
ChainExample ==
  JObj(<<Entry("a", JObj(<<Entry("b", JObj(<<Entry("c", JNum(1))>>))>>))>>)
TagsExample == JObj(<<Entry("tags", JArr(<<JStr("x"), JStr("y"), JNull>>))>>)
\* an element with a key named index; a scalar that an element's field, an
\* earlier one and a later one, shares its column with
IndexExample == JObj(<<Entry("users", JArr(<<JObj(<<Entry("index", JNum(5))>>)>>))>>)
OverlayExamples ==
  {JObj(<<Entry("a_a", JStr("x")), Entry("a", JArr(<<JObj(<<Entry("a", JNum(1))>>)>>))>>),
   JObj(<<Entry("a", JArr(<<JObj(<<Entry("a", JNum(1))>>)>>)), Entry("a_a", JStr("x"))>>),
   JObj(<<Entry("a", JArr(<<JObj(<<>>), JObj(<<>>)>>)), Entry("id", JNum(1))>>)}
DocExamples == {UnionExample, ChainExample, TagsExample, IndexExample} \cup OverlayExamples

Inputs ==
  SmallValues \cup SiblingArrayDocs \cup NestedArrayDocs \cup PrimitiveArrayDocs
    \cup DocExamples

(***************************************************************************)
(* The state machine: one call of parseAndFlattenJSON on a parsed input    *)
(***************************************************************************)
Init ==
  /\ input \in Inputs
  /\ pc = "ready"
  /\ data = <<>>
  /\ maxNestingLevel = 0
  /\ objectCount = 0
  /\ GeneratorsIdle
  /\ ServerIdle

parseAndFlattenJSON ==
  /\ pc = "ready"
  /\ LET records == flatten(input)
     IN /\ data' = records
        /\ objectCount' = Len(records)
  /\ maxNestingLevel' = getNestingLevel(input, 0)
  /\ pc' = "flattened"
  /\ UNCHANGED <<input, generatorVars, serverVars>>

Next == parseAndFlattenJSON

Spec == Init /\ [][Next]_vars
(***************************************************************************)
(* Properties of the flattener                                             *)
(***************************************************************************)
Flattened == pc = "flattened"

\* C1: flatten is total: for every JSON value the record list holds at least
\* one record, and objectCount is the length of that list.
C1_Totality == Flattened => (Len(data) >= 1 /\ objectCount = Len(data))
\* an empty container, a null and a document of empty arrays were flattened
C1_Witness ==
  /\ Flattened
  /\ input = JObj(<<Entry("a", JArr(<<>>)), Entry("a_a", JObj(<<>>))>>)
  /\ objectCount = 1

\* whether a value holds an array at any depth
RECURSIVE ContainsArray(_)
ContainsArray(v) ==
  \/ v.t = "arr"
  \/ /\ v.t = "obj"
     /\ \E i \in 1..Len(v.entries) : ContainsArray(v.entries[i].value)
\* an array all of whose elements are objects that hold no array
IsArrayOfPlainObjects(v) ==
  /\ v.t = "arr"
  /\ \A i \in 1..Len(v.items) : v.items[i].t = "obj" /\ ~ContainsArray(v.items[i])
ArrayEntries(v) == {i \in 1..Len(v.entries) : v.entries[i].value.t = "arr"}
\* an object whose only array-valued entries are two sibling arrays of
\* objects, no array anywhere else in it
TwoSiblingArrays(v) ==
  /\ v.t = "obj"
  /\ Cardinality(ArrayEntries(v)) = 2
  /\ \A i \in 1..Len(v.entries) :
       IF i \in ArrayEntries(v) THEN IsArrayOfPlainObjects(v.entries[i].value)
       ELSE ~ContainsArray(v.entries[i].value)
RECURSIVE SumLengths(_, _)
SumLengths(v, idxs) ==
  IF idxs = {} THEN 0
  ELSE LET i == CHOOSE j \in idxs : TRUE
       IN Len(v.entries[i].value.items) + SumLengths(v, idxs \ {i})
\* N + M
SiblingTotal(v) == SumLengths(v, ArrayEntries(v))

\* C2 as stated: two sibling arrays of objects of lengths N and M give exactly
\* N+M records, for all N, M >= 0.
C2_UnionAllLengths ==
  (Flattened /\ TwoSiblingArrays(input)) => Len(data) = SiblingTotal(input)
\* C2 amended: exactly N+M records whenever N+M >= 1, and the single base
\* record when both arrays are empty.
C2_UnionNonEmpty ==
  (Flattened /\ TwoSiblingArrays(input)) =>
     Len(data) = (IF SiblingTotal(input) >= 1 THEN SiblingTotal(input) ELSE 1)
\* two non-empty sibling arrays of lengths 2 and 2 were flattened to 4 records
C2_Witness ==
  /\ Flattened
  /\ TwoSiblingArrays(input)
  /\ \A i \in ArrayEntries(input) : Len(input.entries[i].value.items) = 2
  /\ Len(data) = 4
\* the column a key path names: its keys joined by underscores
PathColumn(path, key) == IF path = "" THEN key ELSE path \o "_" \o key
\* the columns of the leaves of a plain object reached under path
RECURSIVE LeafColumns(_, _)
LeafColumns(v, path) ==
  UNION {IF v.entries[i].value.t = "obj"
         THEN LeafColumns(v.entries[i].value, PathColumn(path, v.entries[i].key))
         ELSE {PathColumn(path, v.entries[i].key)} : i \in 1..Len(v.entries)}
\* the arrays of v reached from it through object keys only, each with its path
RECURSIVE ArraysReached(_, _)
ArraysReached(v, path) ==
  IF v.t = "arr" THEN {[path |-> path, arr |-> v]}
  ELSE IF v.t = "obj"
  THEN UNION {ArraysReached(v.entries[i].value, PathColumn(path, v.entries[i].key))
                : i \in 1..Len(v.entries)}
  ELSE {}
\* the index column and the data columns of an array of plain objects
ArrayColumns(a) ==
  {a.path \o "_index"}
    \cup UNION {LeafColumns(a.arr.items[i], a.path) : i \in 1..Len(a.arr.items)}
\* an object with exactly two arrays, unrelated, each a non-empty array of
\* plain objects, reached directly or through nested plain objects
TwoUnrelatedArrays(v) ==
  /\ v.t = "obj"
  /\ Cardinality(ArraysReached(v, "")) = 2
  /\ \A a \in ArraysReached(v, "") : IsArrayOfPlainObjects(a.arr) /\ Len(a.arr.items) >= 1
RECURSIVE SumArrayLengths(_)
SumArrayLengths(as) ==
  IF as = {} THEN 0
  ELSE LET a == CHOOSE x \in as : TRUE
       IN Len(a.arr.items) + SumArrayLengths(as \ {a})
HasColumnOf(rec, a) == \E c \in ArrayColumns(a) : HasOwnProperty(rec, c)

\* C3: two unrelated arrays of objects of lengths N >= 1 and M >= 1, direct
\* entries or reached through nested plain objects, give N+M rows and no row
\* carries data or index fields of both arrays.
C3_NoFalseRelationships ==
  (Flattened /\ TwoUnrelatedArrays(input)) =>
     /\ Len(data) = SumArrayLengths(ArraysReached(input, ""))
     /\ \A j \in 1..Len(data) :
          \A a, b \in ArraysReached(input, "") :
            a # b => ~(HasColumnOf(data[j], a) /\ HasColumnOf(data[j], b))

\* the scalar leaves (string, number, boolean) reached from v only through
\* object keys and elements of arrays of objects, each with its column
RECURSIVE ScalarLeaves(_, _)
ScalarLeaves(v, path) ==
  IF v.t = "obj"
  THEN UNION {LET e == v.entries[i]
                  col == PathColumn(path, e.key)
              IN IF e.value.t \in {"str", "num", "bool"}
                 THEN {[col |-> col, val |-> e.value]}
                 ELSE IF e.value.t = "obj" THEN ScalarLeaves(e.value, col)
                 ELSE IF e.value.t = "arr"
                         /\ \A k \in 1..Len(e.value.items) : e.value.items[k].t = "obj"
                 THEN UNION {ScalarLeaves(e.value.items[k], col)
                               : k \in 1..Len(e.value.items)}
                 ELSE {}
              : i \in 1..Len(v.entries)}
  ELSE {}

\* C4: no information is lost: every scalar leaf of an input object appears
\* in at least one record as the value of the column its key path names.
C4_NoInformationLost ==
  (Flattened /\ input.t = "obj") =>
     \A leaf \in ScalarLeaves(input, "") :
        \E j \in 1..Len(data) :
           /\ HasOwnProperty(data[j], leaf.col)
           /\ GetField(data[j], leaf.col) = leaf.val
\* a record as a mapping: the set of its [key, value] fields
Fields(rec) == {rec[i] : i \in 1..Len(rec)}
\* the scalar entries of an object, as fields
ScalarEntries(v) == {v.entries[i] : i \in {n \in 1..Len(v.entries) : IsScalar(v.entries[n].value)}}
\* an object whose entries are scalars and at least one non-empty array of
\* objects with scalar fields only
IsArraysOfFlatObjects(v) ==
  /\ v.t = "obj"
  /\ \A i \in 1..Len(v.entries) :
       \/ IsScalar(v.entries[i].value)
       \/ /\ v.entries[i].value.t = "arr"
          /\ Len(v.entries[i].value.items) >= 1
          /\ \A k \in 1..Len(v.entries[i].value.items) :
               LET el == v.entries[i].value.items[k]
               IN el.t = "obj" /\ \A n \in 1..Len(el.entries) : IsScalar(el.entries[n].value)
  /\ \E i \in 1..Len(v.entries) : v.entries[i].value.t = "arr"
\* the elements of the arrays of v in order, each with its key and index
RECURSIVE Elements(_)
Elements(entries) ==
  IF entries = <<>> THEN <<>>
  ELSE (IF Head(entries).value.t = "arr"
        THEN [k \in 1..Len(Head(entries).value.items) |->
                [key |-> Head(entries).key, idx |-> k - 1,
                 el |-> Head(entries).value.items[k]]]
        ELSE <<>>) \o Elements(Tail(entries))
\* the element's fields prefixed key_
PrefixedFields(o) ==
  {Entry(o.key \o "_" \o o.el.entries[n].key, o.el.entries[n].value) : n \in 1..Len(o.el.entries)}
Columns(fields) == {f.key : f \in fields}

RECURSIVE NodeDepths(_, _)
NodeDepths(v, d) ==
  {d} \cup (IF v.t \in {"arr", "obj"}
            THEN UNION {NodeDepths(ObjectValues(v)[i], d + 1) : i \in 1..Len(ObjectValues(v))}
            ELSE {})
\* the depths of the nodes of v, a container child one deeper than its parent,
\* a primitive or null at the depth of its parent
RECURSIVE ContainerDepths(_, _)
ContainerDepths(v, d) ==
  {d} \cup (IF v.t \in {"arr", "obj"}
            THEN UNION {IF ObjectValues(v)[i].t \in {"arr", "obj"}
                        THEN ContainerDepths(ObjectValues(v)[i], d + 1)
                        ELSE {d} : i \in 1..Len(ObjectValues(v))}
            ELSE {})
Maximum(S) == CHOOSE m \in S : \A n \in S : n <= m

\* C6 as stated: maxNestingLevel is the greatest node depth, a primitive or
\* null child counted at the depth of its parent container.
C6_DepthContainersOnly ==
  Flattened => maxNestingLevel = Maximum(ContainerDepths(input, 0))
\* C6 amended: maxNestingLevel is the greatest node depth, the root at depth 0
\* and every child, container or primitive or null, at depth parent + 1.
C6_DepthEveryChild ==
  Flattened => maxNestingLevel = Maximum(NodeDepths(input, 0))
\* a primitive inside two containers was measured at depth 2
C6_Witness ==
  /\ Flattened
  /\ input = JObj(<<Entry("a", JArr(<<JNum(1), JNull>>))>>)
  /\ maxNestingLevel = 2

\* a chain of nested single-key objects that ends in a primitive
RECURSIVE IsChain(_)
IsChain(v) ==
  /\ v.t = "obj"
  /\ Len(v.entries) = 1
  /\ \/ IsPrimitive(v.entries[1].value)
     \/ IsChain(v.entries[1].value)
RECURSIVE ChainKeys(_)
ChainKeys(v) ==
  IF v.t = "obj" THEN <<v.entries[1].key>> \o ChainKeys(v.entries[1].value) ELSE <<>>
RECURSIVE ChainLeaf(_)
ChainLeaf(v) == IF v.t = "obj" THEN ChainLeaf(v.entries[1].value) ELSE v
RECURSIVE JoinKeys(_)
JoinKeys(ks) ==
  IF Len(ks) = 1 THEN ks[1] ELSE JoinKeys(SubSeq(ks, 1, Len(ks) - 1)) \o "_" \o ks[Len(ks)]

\* C7: {"a":{"b":{"c":1}}} has depth 3 and gives the one record {a_b_c: 1}; a
\* chain of k nested single-key objects that ends in a primitive gives one
\* record with one column, the keys joined by underscores, and depth k; the
\* depth reported is that of the input's structure, whatever the number of
\* records.
C7_Chain ==
  /\ (Flattened /\ input = ChainExample) =>
        maxNestingLevel = 3 /\ data = <<<<Entry("a_b_c", JNum(1))>>>>
  /\ (Flattened /\ IsChain(input)) =>
        /\ data = <<<<Entry(JoinKeys(ChainKeys(input)), ChainLeaf(input))>>>>
        /\ maxNestingLevel = Len(ChainKeys(input))
  /\ Flattened => maxNestingLevel = Maximum(NodeDepths(input, 0))
\* the documented chain of three objects was flattened
C7_Witness ==
  /\ Flattened
  /\ input = ChainExample
  /\ maxNestingLevel = 3
  /\ Len(data) = 1

\* the non-null elements in order, joined with ", "
RECURSIVE JoinedText(_)
JoinedText(items) ==
  IF items = <<>> THEN ""
  ELSE LET last == items[Len(items)]
           before == JoinedText(SubSeq(items, 1, Len(items) - 1))
       IN IF last.t = "null" THEN before
          ELSE IF before = "" /\ \A i \in 1..(Len(items) - 1) : items[i].t = "null"
          THEN JSString(last)
          ELSE before \o ", " \o JSString(last)
\* the field an array of primitives and nulls contributes
PrimitiveArrayField(items) == IF items = <<>> THEN JNull ELSE JStr(JoinedText(items))
IsPrimitiveArray(v) == v.t = "arr" /\ \A i \in 1..Len(v.items) : IsScalar(v.items[i])
\* an object whose entries are scalars and arrays of primitives and nulls
IsFlatDocument(v) ==
  /\ v.t = "obj"
  /\ \A i \in 1..Len(v.entries) :
       IsScalar(v.entries[i].value) \/ IsPrimitiveArray(v.entries[i].value)

\* C8: an array of primitives and nulls adds no record: it contributes one
\* field, the non-null elements in order joined with ", ", or null when the
\* array is empty; {"tags":["x","y",null]} gives the one record {tags: "x, y"}.
C8_PrimitiveArray ==
  /\ (Flattened /\ input = TagsExample) => data = <<<<Entry("tags", JStr("x, y"))>>>>
  /\ (Flattened /\ IsPrimitiveArray(input)) =>
        data = <<<<Entry("", PrimitiveArrayField(input.items))>>>>
  /\ (Flattened /\ IsFlatDocument(input)) =>
        /\ Len(data) = 1
        /\ Len(data[1]) = Len(input.entries)
        /\ \A i \in 1..Len(input.entries) :
             LET e == input.entries[i]
             IN data[1][i] = Entry(e.key, IF e.value.t = "arr"
                                          THEN PrimitiveArrayField(e.value.items)
                                          ELSE e.value)
\* an array with a null between two primitives was joined without the null
C8_Witness ==
  /\ Flattened
  /\ input = TagsExample
  /\ data = <<<<Entry("tags", JStr("x, y"))>>>>

\* C9: every value of every field of every record is a scalar (null,
\* boolean, number or string), never an object or an array.
C9_ScalarValues ==
  Flattened =>
     \A j \in 1..Len(data) : \A i \in 1..Len(data[j]) :
        data[j][i].value.t \in {"null", "bool", "num", "str"}
\* an array holding an object and an array of primitives was flattened to
\* two records, the second with the joined text
C9_Witness ==
  /\ Flattened
  /\ input = JArr(<<JObj(<<>>), JArr(<<JNum(1)>>)>>)
  /\ Len(data) = 2
  /\ Entry("", JStr("1")) \in Fields(data[2])

\* an array of non-empty arrays of plain objects
IsArrayOfArrays(v) ==
  /\ v.t = "arr"
  /\ Len(v.items) >= 1
  /\ \A i \in 1..Len(v.items) : IsArrayOfPlainObjects(v.items[i]) /\ Len(v.items[i].items) >= 1
\* an array nested directly in an array, at the root or under the one key of
\* the root object
NestedArrayOf(v) ==
  IF v.t = "obj" /\ Len(v.entries) = 1 THEN v.entries[1].value ELSE v
\* the <<outer index, inner index>> of the elements in order
RECURSIVE IndexPairs(_, _)
IndexPairs(outer, i) ==
  IF i > Len(outer.items) THEN <<>>
  ELSE [k \in 1..Len(outer.items[i].items) |-> <<i - 1, k - 1>>] \o IndexPairs(outer, i + 1)
AllColumns == UNION {{data[j][i].key : i \in 1..Len(data[j])} : j \in 1..Len(data)}

\* C10: each enclosing array level keeps its own index column: a record that
\* comes from element k of the inner array that is element i of the outer
\* array holds i in one column and k in another, for arrays nested at the
\* root and under a key alike.
C10_IndexPerLevel ==
  (Flattened /\ IsArrayOfArrays(NestedArrayOf(input))) =>
     LET pairs == IndexPairs(NestedArrayOf(input), 1)
     IN /\ Len(data) = Len(pairs)
        /\ \E cOuter, cInner \in AllColumns :
             /\ cOuter # cInner
             /\ \A j \in 1..Len(pairs) :
                  /\ HasOwnProperty(data[j], cOuter)
                  /\ HasOwnProperty(data[j], cInner)
                  /\ GetField(data[j], cOuter) = JNum(pairs[j][1])
                  /\ GetField(data[j], cInner) = JNum(pairs[j][2])

(***************************************************************************)
(* Texts of the generators                                                 *)
(*                                                                         *)
(* The generators look into their texts character by character, so a key   *)
(* or a string value of a record they are given is the sequence of its     *)
(* characters (one-character strings).  A run of decimal digits and a word *)
(* the generator itself writes stand as one element: no rule looks inside. *)
(* Render gives the string a text denotes.                                 *)
(***************************************************************************)
\* (texts are split in halves, which keeps the evaluation shallow)
FirstHalf(text) == SubSeq(text, 1, Len(text) \div 2)
SecondHalf(text) == SubSeq(text, Len(text) \div 2 + 1, Len(text))
RECURSIVE Render(_)
Render(text) ==
  IF text = <<>> THEN ""
  ELSE IF Len(text) = 1 THEN text[1]
  ELSE Render(FirstHalf(text)) \o Render(SecondHalf(text))
\* text.length
RECURSIVE TextLength(_)
TextLength(text) ==
  IF text = <<>> THEN 0
  ELSE IF Len(text) = 1 THEN Len(text[1])
  ELSE TextLength(FirstHalf(text)) + TextLength(SecondHalf(text))
\* text.includes(c)
Includes(text, c) == \E i \in 1..Len(text) : text[i] = c
\* text.replace(/c/g, by) for a character c and a text by
RECURSIVE ReplaceAll(_, _, _)
ReplaceAll(text, c, by) ==
  IF text = <<>> THEN <<>>
  ELSE IF Len(text) = 1 THEN (IF text[1] = c THEN by ELSE text)
  ELSE ReplaceAll(FirstHalf(text), c, by) \o ReplaceAll(SecondHalf(text), c, by)
\* pieces.join(separator) of rendered pieces
RECURSIVE Join(_, _)
Join(pieces, separator) ==
  IF pieces = <<>> THEN ""
  ELSE IF Len(pieces) = 1 THEN pieces[1]
  ELSE pieces[1] \o separator \o Join(Tail(pieces), separator)

\* numbers beside the integers JNum gives: a decimal fraction whole.digits
\* and the infinity JSON.parse yields for a literal that overflows (1e999)
JFraction(whole, digits) == [t |-> "num", v |-> whole, fraction |-> digits]
JInfinity == [t |-> "num", infinite |-> TRUE]
\* record[col] of a record that lacks col
Undefined == [t |-> "undefined"]
IsNullish(x) == x.t \in {"null", "undefined"}
IsFinite(x) == "infinite" \notin DOMAIN x
IsInteger(x) == IsFinite(x) /\ "fraction" \notin DOMAIN x
\* value.toString() of a number
NumberToString(x) ==
  IF ~IsFinite(x) THEN <<"Infinity">>
  ELSE (IF x.v < 0 THEN <<"-", ToString(0 - x.v)>> ELSE <<ToString(x.v)>>)
       \o (IF IsInteger(x) THEN <<>> ELSE <<".", x.fraction>>)
\* String(value) of a value that is neither null nor undefined
String(x) ==
  IF x.t = "str" THEN x.v
  ELSE IF x.t = "num" THEN NumberToString(x)
  ELSE IF x.v THEN <<"true">> ELSE <<"false">>
\* record[col]
Lookup(record, col) ==
  IF HasOwnProperty(record, col) THEN GetField(record, col) ELSE Undefined

(***************************************************************************)
(* generateSQL (server/lib/sql-generator.ts)                               *)
(***************************************************************************)
escapeIdentifier_bare(identifier) == Render(identifier)
\* "…" with every double quote doubled
escapeIdentifier(identifier) ==
  "\"" \o Render(ReplaceAll(identifier, "\"", <<"\"", "\"">>)) \o "\""

\* the characters [a-zA-Z0-9_]
WordCharacters ==
  {"a", "b", "c", "d", "e", "f", "g", "h", "i", "j", "k", "l", "m",
   "n", "o", "p", "q", "r", "s", "t", "u", "v", "w", "x", "y", "z",
   "A", "B", "C", "D", "E", "F", "G", "H", "I", "J", "K", "L", "M",
   "N", "O", "P", "Q", "R", "S", "T", "U", "V", "W", "X", "Y", "Z",
   "0", "1", "2", "3", "4", "5", "6", "7", "8", "9", "_"}
\* tableName.replace(/[^a-zA-Z0-9_]/g, '_')
sanitizeTableName(name) ==
  [i \in 1..Len(name) |-> IF name[i] \in WordCharacters THEN name[i] ELSE "_"]

\* the longest string a VARCHAR(255) column takes
VarcharLength == 255

\* the flags the loop of inferSQLType leaves
hasNumber(values) == \E i \in 1..Len(values) : values[i].t = "num"
hasBoolean(values) == \E i \in 1..Len(values) : values[i].t = "bool"
hasString(values) == \E i \in 1..Len(values) : values[i].t = "str"
allIntegers(values) ==
  \A i \in 1..Len(values) : values[i].t = "num" => IsInteger(values[i])
RECURSIVE maxLength(_)
maxLength(values) ==
  IF values = <<>> THEN 0
  ELSE LET rest == maxLength(Tail(values))
           length == IF Head(values).t = "str" THEN TextLength(Head(values).v) ELSE 0
       IN IF length > rest THEN length ELSE rest

inferSQLType_integerOnly(columnName, values) ==
  IF hasBoolean(values) /\ ~hasNumber(values) /\ ~hasString(values) THEN "BOOLEAN"
  ELSE IF hasNumber(values) /\ ~hasString(values) THEN "BIGINT"
  ELSE IF maxLength(values) = 0 THEN "TEXT"
  ELSE IF maxLength(values) <= VarcharLength THEN "VARCHAR(255)"
  ELSE "TEXT"
inferSQLType(columnName, values) ==
  IF hasBoolean(values) /\ ~hasNumber(values) /\ ~hasString(values) THEN "BOOLEAN"
  ELSE IF hasNumber(values) /\ ~hasString(values)
       THEN (IF allIntegers(values) THEN "BIGINT" ELSE "DOUBLE PRECISION")
  ELSE IF maxLength(values) = 0 THEN "TEXT"
  ELSE IF maxLength(values) <= VarcharLength THEN "VARCHAR(255)"
  ELSE "TEXT"

\* columnSet.add(key) for the keys of one record
RECURSIVE addKeys(_, _)
addKeys(columnSet, keys) ==
  IF keys = <<>> THEN columnSet
  ELSE addKeys(IF \E i \in 1..Len(columnSet) : columnSet[i] = Head(keys)
               THEN columnSet
               ELSE Append(columnSet, Head(keys)),
               Tail(keys))
sqlColumns_lastRecordFirst(records, columnSet) ==
  IF records = <<>> THEN columnSet
  ELSE addKeys(addKeys(columnSet, ObjectKeys(records[Len(records)])),
               ObjectKeys(Head(records)))
\* Array.from(columnSet) after data.forEach(record => Object.keys(record)...)
RECURSIVE sqlColumns(_, _)
sqlColumns(records, columnSet) ==
  IF records = <<>> THEN columnSet
  ELSE sqlColumns(Tail(records), addKeys(columnSet, ObjectKeys(Head(records))))

\* data.map(record => record[col])
columnValues(records, col) ==
  [j \in 1..Len(records) |-> Lookup(records[j], col)]

sqlValue_rawQuotes(value) ==
  IF IsNullish(value) THEN "NULL"
  ELSE IF value.t = "num"
       THEN (IF ~IsFinite(value) THEN "NULL" ELSE Render(NumberToString(value)))
  ELSE IF value.t = "bool" THEN (IF value.v THEN "TRUE" ELSE "FALSE")
  ELSE "'" \o Render(String(value)) \o "'"
\* the literal an INSERT holds for a value
sqlValue(value) ==
  IF IsNullish(value) THEN "NULL"
  ELSE IF value.t = "num"
       THEN (IF ~IsFinite(value) THEN "NULL" ELSE Render(NumberToString(value)))
  ELSE IF value.t = "bool" THEN (IF value.v THEN "TRUE" ELSE "FALSE")
  ELSE "'" \o Render(ReplaceAll(String(value), "'", <<"'", "'">>)) \o "'"

\* the lines of CREATE TABLE
createTable(safeTableName, columns, columnTypes) ==
  <<"CREATE TABLE " \o escapeIdentifier(safeTableName) \o " (">>
  \o [i \in 1..Len(columns) |->
        "  " \o escapeIdentifier(columns[i]) \o " " \o columnTypes[i]
             \o (IF i < Len(columns) THEN "," ELSE "")]
  \o <<");">>
\* one INSERT: its table, its column list, its values and its text
insertStatement(safeTableName, columns, record) ==
  LET values == [i \in 1..Len(columns) |-> sqlValue(Lookup(record, columns[i]))]
      columnList == [i \in 1..Len(columns) |-> escapeIdentifier(columns[i])]
  IN [table |-> escapeIdentifier(safeTableName),
      columnList |-> columnList,
      values |-> values,
      text |-> "INSERT INTO " \o escapeIdentifier(safeTableName) \o " ("
                 \o Join(columnList, ", ") \o ") VALUES ("
                 \o Join(values, ", ") \o ");"]

\* generateSQL past its guard: the header comments, CREATE TABLE and the
\* INSERTs, with the parts the text is put together from
sqlStatements(records, name, now) ==
  LET safeTableName == sanitizeTableName(name)
      columns == sqlColumns(records, <<>>)
      columnTypes == [i \in 1..Len(columns) |->
                        inferSQLType(columns[i], columnValues(records, columns[i]))]
      createTableLines == createTable(safeTableName, columns, columnTypes)
      insertStatements == [j \in 1..Len(records) |->
                             insertStatement(safeTableName, columns, records[j])]
  IN [kind |-> "sql",
      text |-> "-- SQL Generated: " \o now \o "\n-- Table: "
                 \o Render(safeTableName) \o "\n-- Records: "
                 \o ToString(Len(records)) \o "\n\n"
                 \o Join(createTableLines, "\n") \o "\n\n"
                 \o Join([j \in 1..Len(records) |-> insertStatements[j].text], "\n"),
      recordCount |-> Len(records),
      safeTableName |-> safeTableName,
      columns |-> columns,
      columnTypes |-> columnTypes,
      createTableLines |-> createTableLines,
      insertStatements |-> insertStatements]

sqlOutput_noGuard(records, name, now) == sqlStatements(records, name, now)
\* generateSQL(data, tableName) at the time now
sqlOutput(records, name, now) ==
  IF Len(records) = 0
  THEN [kind |-> "sql", text |-> "-- No data to convert", recordCount |-> 0,
        safeTableName |-> <<>>, columns |-> <<>>, columnTypes |-> <<>>,
        createTableLines |-> <<>>, insertStatements |-> <<>>]
  ELSE sqlStatements(records, name, now)

(***************************************************************************)
(* generateCSV (server/lib/json-parser.ts)                                 *)
(***************************************************************************)
\* if (!columnMap.has(key)) columnMap.set(key, columnMap.size), for the keys
\* of one record; columnMap is the sequence of its <<key, position>> entries
RECURSIVE setKeys(_, _)
setKeys(columnMap, keys) ==
  IF keys = <<>> THEN columnMap
  ELSE setKeys(IF \E i \in 1..Len(columnMap) : columnMap[i][1] = Head(keys)
               THEN columnMap
               ELSE Append(columnMap, <<Head(keys), Len(columnMap)>>),
               Tail(keys))
RECURSIVE collectColumnMap(_, _)
collectColumnMap(records, columnMap) ==
  IF records = <<>> THEN columnMap
  ELSE collectColumnMap(Tail(records), setKeys(columnMap, ObjectKeys(Head(records))))
\* Array.from(columnMap.keys())
csvHeaders(records) ==
  LET columnMap == collectColumnMap(records, <<>>)
  IN [i \in 1..Len(columnMap) |-> columnMap[i][1]]

needsQuoting_noCarriageReturn(stringValue) ==
  \/ Includes(stringValue, ",")
  \/ Includes(stringValue, "\"")
  \/ Includes(stringValue, "\n")
  \/ (stringValue # <<>> /\ Head(stringValue) \in {"=", "+", "-", "@"})
needsQuoting(stringValue) ==
  \/ Includes(stringValue, ",")
  \/ Includes(stringValue, "\"")
  \/ Includes(stringValue, "\n")
  \/ Includes(stringValue, "\r")
  \/ (stringValue # <<>> /\ Head(stringValue) \in {"=", "+", "-", "@"})
escapeCSVValue(value) ==
  IF IsNullish(value) THEN ""
  ELSE LET stringValue == String(value)
       IN IF needsQuoting(stringValue)
          THEN "\"" \o Render(ReplaceAll(stringValue, "\"", <<"\"", "\"">>)) \o "\""
          ELSE Render(stringValue)

csvRow_ownKeys(headers, record) ==
  [i \in 1..Len(record) |-> escapeCSVValue(record[i].value)]
\* headers.map(header => escapeCSVValue(record[header])), before its join
csvRow(headers, record) ==
  [i \in 1..Len(headers) |-> escapeCSVValue(Lookup(record, headers[i]))]

\* generateCSV(data): the text it returns, with the rows the text is put
\* together from, each the sequence of its fields
csvOutput(records) ==
  IF Len(records) = 0
  THEN [kind |-> "csv", text |-> "", headers |-> <<>>, rows |-> <<>>]
  ELSE LET headers == csvHeaders(records)
           headerRow == [i \in 1..Len(headers) |-> escapeCSVValue(JStr(headers[i]))]
           dataRows == [j \in 1..Len(records) |-> csvRow(headers, records[j])]
           rows == <<headerRow>> \o dataRows
       IN [kind |-> "csv",
           text |-> Join([r \in 1..Len(rows) |-> Join(rows[r], ",")], "\n"),
           headers |-> headers,
           rows |-> rows]

(***************************************************************************)
(* The record sets the generators are called on                            *)
(***************************************************************************)
\* the most records of a record set
MaxRows == 2

Repeat(c, n) == [i \in 1..n |-> c]
ColumnA == <<"a">>
\* column names in an order that is not the alphabetical one, one of them
\* with a double quote and a comma
GenKeys == {<<"b">>, <<"a">>, <<"x", "\"", ",", "y">>}
\* records whose keys are any keys in any order
KeyOrderRecords ==
  {<<>>} \cup
  UNION {{[i \in 1..n |-> Entry(ks[i], JNum(1))] :
            ks \in {q \in [1..n -> GenKeys] : \A i, j \in 1..n : i # j => q[i] # q[j]}} :
         n \in 1..Cardinality(GenKeys)}
\* the values of one column: every kind, and strings around the VARCHAR length
ColumnValues ==
  {JNull, JBool(TRUE), JNum(1), JNum(0 - 2), JFraction(2, "5"), JInfinity,
   JStr(<<>>), JStr(<<"a">>), JStr(Repeat("a", VarcharLength)),
   JStr(Repeat("a", VarcharLength + 1))}
\* records with the column a, or without it
ColumnRecords == {<<>>} \cup {<<Entry(ColumnA, v)>> : v \in ColumnValues}
\* values whose text the generators have to escape, and values they do not
RenderValues ==
  {JBool(FALSE), JNum(12), JFraction(0, "25"),
   JStr(<<"a", ",", "b">>), JStr(<<"=", "1", "+", "1">>), JStr(<<"+", "1">>),
   JStr(<<"-", "a">>), JStr(<<"@", "a">>), JStr(<<"a", "=", "b">>),
   JStr(<<"a", "\"", "b">>), JStr(<<"a", "\n", "b">>), JStr(<<"a", "\r">>),
   JStr(<<"i", "t", "'", "s">>), JStr(<<"'", "'">>), JStr(<<"a", " ", "b">>)}
RenderRecordSets == {<<<<Entry(ColumnA, v)>>>> : v \in RenderValues}
RecordSets ==
  SeqsOver(KeyOrderRecords, 0, MaxRows) \cup SeqsOver(ColumnRecords, 1, MaxRows)
    \cup RenderRecordSets
\* the default of the tableName parameter
DefaultTableName ==
  <<"c", "o", "n", "v", "e", "r", "t", "e", "d", "_", "d", "a", "t", "a">>
TableNames ==
  {DefaultTableName, <<>>, <<"T", "_", "1">>, <<"m", "y", "-", "t">>,
   <<"a", " ", "\"", "b", ";">>}
\* what new Date().toISOString() may give
Timestamps == {"2024-01-01T00:00:00.000Z", "2024-01-01T00:00:00.001Z"}

(***************************************************************************)
(* The state machine of the generators: one call of generateSQL or of      *)
(* generateCSV on a record set                                             *)
(***************************************************************************)
GeneratorInit ==
  /\ pc = "records"
  /\ \/ data \in RecordSets /\ tableName = DefaultTableName
     \/ data \in RenderRecordSets \cup {<<>>} /\ tableName \in TableNames
  /\ output = NoOutput
  /\ earlier = NoOutput
  /\ input = JNull
  /\ maxNestingLevel = 0
  /\ objectCount = 0
  /\ ServerIdle

generateSQL ==
  /\ pc = "records"
  /\ \E now \in Timestamps : output' = sqlOutput(data, tableName, now)
  /\ pc' = "sql"
  /\ UNCHANGED <<parserVars, tableName, earlier, serverVars>>

generateCSV ==
  /\ pc = "records"
  /\ output' = csvOutput(data)
  /\ pc' = "csv"
  /\ UNCHANGED <<parserVars, tableName, earlier, serverVars>>

GeneratorNext == generateSQL \/ generateCSV

GeneratorSpec == GeneratorInit /\ [][GeneratorNext]_vars

(***************************************************************************)
(* Properties of the generators                                            *)
(***************************************************************************)
CalledSQL == pc = "sql"
CalledCSV == pc = "csv"

\* the column names that occur in any record
AllKeys(records) ==
  UNION {{records[j][i].key : i \in 1..Len(records[j])} : j \in 1..Len(records)}
\* the first record that has the column, and the column's place in a record
FirstRecord(records, k) ==
  CHOOSE j \in 1..Len(records) :
    /\ HasOwnProperty(records[j], k)
    /\ \A h \in 1..(j - 1) : ~HasOwnProperty(records[h], k)
PlaceIn(record, k) == CHOOSE i \in 1..Len(record) : record[i].key = k
\* c is seen before d: in an earlier record, or earlier in the same record
SeenBefore(records, c, d) ==
  LET jc == FirstRecord(records, c)
      jd == FirstRecord(records, d)
  IN jc < jd \/ (jc = jd /\ PlaceIn(records[jc], c) < PlaceIn(records[jd], d))
\* columns lists every column name of the records once, in first-seen order
IsFirstSeenOrder(columns, records) ==
  /\ {columns[i] : i \in 1..Len(columns)} = AllKeys(records)
  /\ \A i, j \in 1..Len(columns) : i < j => SeenBefore(records, columns[i], columns[j])

\* C11: the column list of generateSQL, in CREATE TABLE and in every INSERT,
\* and the header of generateCSV list every column name of the records
\* exactly once in first-seen order (the first record's keys, then the new
\* keys of later records as they appear), so the two sequences are the same.
C11_FirstSeenOrder ==
  /\ (CalledSQL /\ Len(data) > 0) =>
       /\ IsFirstSeenOrder(output.columns, data)
       /\ Len(output.createTableLines) = Len(output.columns) + 2
       /\ \A i \in 1..Len(output.columns) :
            output.createTableLines[i + 1] =
              "  " \o escapeIdentifier(output.columns[i]) \o " " \o output.columnTypes[i]
                   \o (IF i < Len(output.columns) THEN "," ELSE "")
       /\ \A j \in 1..Len(output.insertStatements) :
            output.insertStatements[j].columnList =
              [i \in 1..Len(output.columns) |-> escapeIdentifier(output.columns[i])]
  /\ (CalledCSV /\ Len(data) > 0) => IsFirstSeenOrder(output.headers, data)
\* a later record brings a new key between known ones; the order is not the
\* alphabetical one
C11_Witness ==
  /\ CalledSQL
  /\ data = << <<Entry(<<"b">>, JNum(1)), Entry(<<"a">>, JNum(1))>>,
               <<Entry(<<"a">>, JNum(1)), Entry(<<"x", "\"", ",", "y">>, JNum(1)),
                 Entry(<<"b">>, JNum(1))>> >>
  /\ output.columns = << <<"b">>, <<"a">>, <<"x", "\"", ",", "y">> >>

\* the values a column has in the records that hold it with a value
NonNullValues(records, col) ==
  {Lookup(records[j], col) : j \in 1..Len(records)} \ {JNull, Undefined}
Kinds(values) == {v.t : v \in values}
SQLTypes == {"BOOLEAN", "BIGINT", "DOUBLE PRECISION", "VARCHAR(255)", "TEXT"}
StringTypes == {"VARCHAR(255)", "TEXT"}

\* C12: a column whose values are booleans (and nulls) is BOOLEAN; a column
\* with a number and no string is BIGINT when every number is a finite
\* integer and DOUBLE PRECISION otherwise; a column that mixes a string with
\* another kind has a string type; every type is one of the five.
C12_BooleanAndNumeric ==
  (CalledSQL /\ Len(data) > 0) =>
    \A i \in 1..Len(output.columns) :
      LET values == NonNullValues(data, output.columns[i])
          type == output.columnTypes[i]
      IN /\ type \in SQLTypes
         /\ Kinds(values) = {"bool"} => type = "BOOLEAN"
         /\ ("num" \in Kinds(values) /\ "str" \notin Kinds(values)) =>
              type = IF \A v \in values : v.t = "num" => (IsFinite(v) /\ IsInteger(v))
                     THEN "BIGINT" ELSE "DOUBLE PRECISION"
         /\ ("str" \in Kinds(values) /\ Kinds(values) # {"str"}) => type \in StringTypes
\* an integer and a fraction in one column
C12_Witness ==
  /\ CalledSQL
  /\ data = << <<Entry(ColumnA, JNum(1))>>, <<Entry(ColumnA, JFraction(2, "5"))>> >>
  /\ output.columnTypes = <<"DOUBLE PRECISION">>

\* the lengths of the strings among the values
StringLengths(values) == {TextLength(v.v) : v \in {w \in values : w.t = "str"}}

\* C13: a column in which a string is observed is VARCHAR(255) when the
\* longest observed string has at most 255 characters, from length 0 on, and
\* TEXT when it is longer; a column with no value other than null is TEXT.
C13_StringRule ==
  (CalledSQL /\ Len(data) > 0) =>
    \A i \in 1..Len(output.columns) :
      LET values == NonNullValues(data, output.columns[i])
          type == output.columnTypes[i]
      IN /\ "str" \in Kinds(values) =>
              type = IF Maximum(StringLengths(values)) <= VarcharLength
                     THEN "VARCHAR(255)" ELSE "TEXT"
         /\ values = {} => type = "TEXT"

\* a text in single quotes, every single quote in it doubled
SingleQuoted(text) == "'" \o Render(ReplaceAll(text, "'", <<"'", "'">>)) \o "'"
\* the literal of a value: NULL for a missing or null one, TRUE/FALSE for a
\* boolean, the decimal text for a finite number, the quoted text for any other
LiteralAsStated(value) ==
  IF IsNullish(value) THEN "NULL"
  ELSE IF value.t = "bool" THEN (IF value.v THEN "TRUE" ELSE "FALSE")
  ELSE IF value.t = "num" /\ IsFinite(value) THEN Render(NumberToString(value))
  ELSE SingleQuoted(String(value))
\* the same, with NULL for a number that is not finite
Literal(value) ==
  IF value.t = "num" /\ ~IsFinite(value) THEN "NULL" ELSE LiteralAsStated(value)
\* one INSERT per record in record order, each with all the columns in the
\* global order and the literal of the record's value for each column; the
\* Records comment of the header counts the INSERTs
InsertsRender(literal(_)) ==
  (CalledSQL /\ Len(data) > 0) =>
    /\ Len(output.insertStatements) = Len(data)
    /\ \A j \in 1..Len(data) :
         LET statement == output.insertStatements[j]
         IN /\ statement.columnList =
                 [i \in 1..Len(output.columns) |-> escapeIdentifier(output.columns[i])]
            /\ statement.values =
                 [i \in 1..Len(output.columns) |-> literal(Lookup(data[j], output.columns[i]))]
            /\ statement.text =
                 "INSERT INTO " \o escapeIdentifier(output.safeTableName) \o " ("
                   \o Join(statement.columnList, ", ") \o ") VALUES ("
                   \o Join(statement.values, ", ") \o ");"
    /\ \E now \in Timestamps :
         output.text =
           "-- SQL Generated: " \o now \o "\n-- Table: " \o Render(output.safeTableName)
             \o "\n-- Records: " \o ToString(Len(output.insertStatements)) \o "\n\n"
             \o Join(output.createTableLines, "\n") \o "\n\n"
             \o Join([j \in 1..Len(data) |-> output.insertStatements[j].text], "\n")

\* C14 as stated: generateSQL emits one INSERT per record, in record order,
\* each naming all global columns in the global order with one value per
\* column: NULL for a missing or null column, TRUE/FALSE for a boolean, the
\* decimal text for a finite number, and for any other value the text in
\* single quotes with inner single quotes doubled; the header's record count
\* is the number of INSERT statements.
C14_InsertPerRecord == InsertsRender(LiteralAsStated)
\* C14, amended: the same, except that a number that is not finite renders
\* NULL and is not quoted.
C14_InsertPerRecordFinite == InsertsRender(Literal)
\* a record with an infinite number and a record with a quote in its string
C14_Witness ==
  /\ CalledSQL
  /\ data = << <<Entry(ColumnA, JInfinity)>>, <<Entry(ColumnA, JStr(<<"a">>))>> >>
  /\ output.insertStatements[1].values = <<"NULL">>
  /\ output.insertStatements[2].text = "INSERT INTO \"converted_data\" (\"a\") VALUES ('a');"

\* C15: on the empty record set generateSQL returns the placeholder comment,
\* with no CREATE TABLE and no INSERT, whatever the table name, and
\* generateCSV returns the empty text.
C15_EmptyRecordSet ==
  /\ (CalledSQL /\ Len(data) = 0) =>
       /\ output.text = "-- No data to convert"
       /\ output.createTableLines = <<>>
       /\ output.insertStatements = <<>>
  /\ (CalledCSV /\ Len(data) = 0) => output.text = ""
\* generateSQL was called on no records with a table name of its own
C15_Witness ==
  /\ CalledSQL
  /\ data = <<>>
  /\ tableName = <<"m", "y", "-", "t">>
  /\ output.text = "-- No data to convert"

\* a text that has a comma, a double quote, a line feed or a carriage return,
\* or that begins with = + - or @
MustBeQuoted(text) ==
  \/ \E i \in 1..Len(text) : text[i] \in {",", "\"", "\n", "\r"}
  \/ Len(text) > 0 /\ text[1] \in {"=", "+", "-", "@"}
\* a text in double quotes, every double quote in it doubled
DoubleQuoted(text) == "\"" \o Render(ReplaceAll(text, "\"", <<"\"", "\"">>)) \o "\""
Field(value) ==
  IF IsNullish(value) THEN ""
  ELSE IF MustBeQuoted(String(value)) THEN DoubleQuoted(String(value))
  ELSE Render(String(value))

\* C16: in the CSV a null or missing value is the empty field; any other
\* value's string form is put in double quotes, inner double quotes doubled,
\* exactly when it has a comma, a double quote, a line feed or a carriage
\* return or begins with = + - or @, and is written unchanged otherwise;
\* a,b becomes "a,b" and =1+1 becomes "=1+1".
C16_FieldRendering ==
  (CalledCSV /\ Len(data) > 0) =>
    /\ \A j \in 1..Len(data) : \A i \in 1..Len(output.headers) :
         output.rows[j + 1][i] = Field(Lookup(data[j], output.headers[i]))
    /\ data = << <<Entry(ColumnA, JStr(<<"a", ",", "b">>))>> >> =>
         output.rows[2] = <<"\"a,b\"">>
    /\ data = << <<Entry(ColumnA, JStr(<<"=", "1", "+", "1">>))>> >> =>
         output.rows[2] = <<"\"=1+1\"">>
    /\ data = << <<Entry(ColumnA, JStr(<<"a", "=", "b">>))>> >> =>
         output.rows[2] = <<"a=b">>
\* a value that could be read as a formula was written
C16_Witness ==
  /\ CalledCSV
  /\ data = << <<Entry(ColumnA, JStr(<<"=", "1", "+", "1">>))>> >>
  /\ output.text = "a\n\"=1+1\""

\* the first n of the lines, a line feed between each two and none after
RECURSIVE LinesText(_, _)
LinesText(lines, n) ==
  IF n = 0 THEN ""
  ELSE IF n = 1 THEN lines[1]
  ELSE LinesText(lines, n - 1) \o "\n" \o lines[n]
\* the fields of a row, a comma between each two
RECURSIVE FieldsText(_, _)
FieldsText(fields, n) ==
  IF n = 0 THEN ""
  ELSE IF n = 1 THEN fields[1]
  ELSE FieldsText(fields, n - 1) \o "," \o fields[n]

\* C17: for a non-empty record set the CSV is the header row and then one
\* row per record in record order, with a line feed between rows and none
\* after the last; every row has one field per header column, in the header's
\* order, empty where the record lacks the column.
C17_Layout ==
  (CalledCSV /\ Len(data) > 0) =>
    /\ Len(output.rows) = Len(data) + 1
    /\ output.rows[1] =
         [i \in 1..Len(output.headers) |-> Field(JStr(output.headers[i]))]
    /\ \A j \in 1..Len(data) :
         /\ Len(output.rows[j + 1]) = Len(output.headers)
         /\ \A i \in 1..Len(output.headers) :
              output.rows[j + 1][i] =
                IF HasOwnProperty(data[j], output.headers[i])
                THEN Field(GetField(data[j], output.headers[i]))
                ELSE ""
    /\ output.text =
         LinesText([r \in 1..Len(output.rows) |->
                      FieldsText(output.rows[r], Len(output.rows[r]))],
                   Len(output.rows))
\* two records, each lacking a column the other has
C17_Witness ==
  /\ CalledCSV
  /\ data = << <<Entry(<<"b">>, JNum(1)), Entry(<<"a">>, JNum(1))>>,
               <<Entry(<<"a">>, JNum(1)), Entry(<<"x", "\"", ",", "y">>, JNum(1))>> >>
  /\ output.text = "b,a,\"x\"\",y\"\n1,1,\n,1,1"

\* C18: the table name of the output is the given one with every character
\* outside [A-Za-z0-9_] replaced by an underscore: as long as the given
\* name, of allowed characters only, and left alone by a second sanitizing;
\* every table and column identifier of CREATE TABLE and of the INSERTs is
\* in double quotes with its inner double quotes doubled.
C18_Identifiers ==
  (CalledSQL /\ Len(data) > 0) =>
    /\ Len(output.safeTableName) = Len(tableName)
    /\ \A i \in 1..Len(tableName) :
         /\ output.safeTableName[i] \in WordCharacters
         /\ output.safeTableName[i] =
              IF tableName[i] \in WordCharacters THEN tableName[i] ELSE "_"
    /\ sanitizeTableName(output.safeTableName) = output.safeTableName
    /\ output.createTableLines[1] =
         "CREATE TABLE " \o DoubleQuoted(output.safeTableName) \o " ("
    /\ \A i \in 1..Len(output.columns) :
         output.createTableLines[i + 1] =
           "  " \o DoubleQuoted(output.columns[i]) \o " " \o output.columnTypes[i]
                \o (IF i < Len(output.columns) THEN "," ELSE "")
    /\ \A j \in 1..Len(output.insertStatements) :
         /\ output.insertStatements[j].table = DoubleQuoted(output.safeTableName)
         /\ output.insertStatements[j].columnList =
              [i \in 1..Len(output.columns) |-> DoubleQuoted(output.columns[i])]
\* a table name with a blank, a double quote and a semicolon
C18_Witness ==
  /\ CalledSQL
  /\ Len(data) > 0
  /\ tableName = <<"a", " ", "\"", "b", ";">>
  /\ output.safeTableName = <<"a", "_", "_", "b", "_">>
  /\ output.createTableLines[1] = "CREATE TABLE \"a__b_\" ("

(***************************************************************************)
(* The server (server/routes.ts): POST /api/webhook and POST /api/convert  *)
(*                                                                         *)
(* A JSON text is given by the number of its lines and by the value        *)
(* JSON.parse gives it, if any: every value can be written on one line or  *)
(* spread over many.  An absent or empty session id is the empty string,   *)
(* which the code's || and ?: treat alike.  The output of a conversion is  *)
(* told by the generator that made it and the records it was given; the    *)
(* text itself is the subject of GeneratorSpec.                            *)
(***************************************************************************)
\* the most lines a request may have without payment
FreeLimit == 50

jsonText(value, lines) == [valid |-> TRUE, parsed |-> value, lines |-> lines]
invalidJsonText(lines) == [valid |-> FALSE, lines |-> lines]
\* the text of no characters, which is one line and not JSON
emptyText == [valid |-> FALSE, lines |-> 1, length |-> 0]
\* jsonInput.split('\n').length
lineCount(jsonInput) == jsonInput.lines

requestSessionId_bodyFirst(req) ==
  IF req.body.sessionId # "" THEN req.body.sessionId
  ELSE IF req.query # "" THEN req.query
  ELSE req.header
\* req.query.session_id || req.body.sessionId || req.headers['x-session-id']
requestSessionId(req) ==
  IF req.query # "" THEN req.query
  ELSE IF req.body.sessionId # "" THEN req.body.sessionId
  ELSE req.header

\* conversionRequestSchema.parse(req.body) does not throw
isValidRequest(body) ==
  /\ "length" \notin DOMAIN body.jsonInput
  /\ body.outputFormat \in {"sql", "csv"}

\* output: "", the output of no generator
emptyOutput == [generator |-> "none"]
\* the output of generateSQL(records, tableName || "converted_data") or of
\* generateCSV(records)
generatedOutput(outputFormat, records, name) ==
  IF outputFormat = "sql"
  THEN [generator |-> "generateSQL", data |-> records,
        tableName |-> IF name = <<>> THEN DefaultTableName ELSE name]
  ELSE [generator |-> "generateCSV", data |-> records]

\* the response of POST /api/convert to req when the sessions in paid are paid
convertResponse(req, paid) ==
  IF ~isValidRequest(req.body)
  THEN [route |-> "convert", status |-> 400, message |-> "Validation error"]
  ELSE IF ~req.body.jsonInput.valid
  THEN [route |-> "convert", status |-> 400, message |-> "Invalid JSON format"]
  ELSE LET parsed == req.body.jsonInput.parsed
           sessionId == requestSessionId(req)
           isPaid == IF sessionId # "" THEN sessionId \in paid ELSE FALSE
       IN IF lineCount(req.body.jsonInput) > FreeLimit /\ ~isPaid
          THEN [route |-> "convert", status |-> 200, output |-> emptyOutput,
                lineCount |-> lineCount(req.body.jsonInput),
                nestingLevel |-> getNestingLevel(parsed, 0),
                requiresPayment |-> TRUE]
          ELSE [route |-> "convert", status |-> 200,
                output |-> generatedOutput(req.body.outputFormat, flatten(parsed),
                                           req.body.tableName),
                lineCount |-> lineCount(req.body.jsonInput),
                nestingLevel |-> getNestingLevel(parsed, 0),
                requiresPayment |-> FALSE]

webhookPaid_unverified(req, secret, paid) ==
  IF /\ req.signature # ""
     /\ secret
     /\ req.event.type = "checkout.session.completed"
     /\ req.event.id # ""
  THEN paid \cup {req.event.id}
  ELSE paid
\* the sessions paid after POST /api/webhook handled req
webhookPaid(req, secret, paid) ==
  IF /\ req.signature # ""
     /\ secret
     /\ req.signatureValid
     /\ req.event.type = "checkout.session.completed"
     /\ req.event.id # ""
  THEN paid \cup {req.event.id}
  ELSE paid
\* its response
webhookResponse(req, secret) ==
  IF req.signature = ""
  THEN [route |-> "webhook", status |-> 400, message |-> "Missing stripe-signature header"]
  ELSE IF ~secret
  THEN [route |-> "webhook", status |-> 500, message |-> "Webhook secret not configured"]
  ELSE IF ~req.signatureValid
  THEN [route |-> "webhook", status |-> 400, message |-> "Webhook Error"]
  ELSE [route |-> "webhook", status |-> 200, received |-> TRUE]

(***************************************************************************)
(* The requests the server is sent                                         *)
(***************************************************************************)
SessionIds == {"cs_1", "cs_2"}
\* an array of n objects, which flattens to n records
ArrayOfObjects(n) == JArr([i \in 1..n |-> JObj(<<>>)])
\* JSON texts around the limit, in records and in lines
JsonTexts ==
  {jsonText(ArrayOfObjects(1), 1),
   jsonText(ArrayOfObjects(FreeLimit), FreeLimit),
   jsonText(ArrayOfObjects(FreeLimit), FreeLimit + 1),
   jsonText(ArrayOfObjects(FreeLimit + 1), FreeLimit),
   jsonText(ArrayOfObjects(FreeLimit + 1), FreeLimit + 1)}
\* requests with a session id, or none, in each of the three places; requests
\* for CSV; requests that fail validation or hold no JSON
ConvertRequests ==
  {[route |-> "convert", query |-> q, header |-> h,
    body |-> [jsonInput |-> t, outputFormat |-> "sql", tableName |-> <<>>, sessionId |-> b]] :
     q \in SessionIds \cup {""}, h \in {"cs_1", ""}, b \in SessionIds \cup {""},
     t \in JsonTexts}
  \cup
  {[route |-> "convert", query |-> "", header |-> "",
    body |-> [jsonInput |-> t, outputFormat |-> "csv", tableName |-> <<>>, sessionId |-> ""]] :
     t \in JsonTexts}
  \cup
  {[route |-> "convert", query |-> "", header |-> "",
    body |-> [jsonInput |-> t, outputFormat |-> f, tableName |-> <<"t">>, sessionId |-> ""]] :
     t \in {jsonText(ArrayOfObjects(1), 1), invalidJsonText(FreeLimit + 1), emptyText},
     f \in {"sql", "xml"}}
EventTypes == {"checkout.session.completed", "customer.subscription.updated"}
WebhookRequests ==
  {[route |-> "webhook", signature |-> "", signatureValid |-> FALSE,
    event |-> [type |-> "checkout.session.completed", id |-> "cs_1"]]}
  \cup
  {[route |-> "webhook", signature |-> "t=1,v1=0", signatureValid |-> v,
    event |-> [type |-> ty, id |-> id]] :
     v \in BOOLEAN, ty \in EventTypes, id \in SessionIds}

(***************************************************************************)
(* The state machine of the server                                         *)
(***************************************************************************)
ServerInit ==
  /\ pc = "listening"
  /\ paidSessions = {}
  /\ webhookSecret \in BOOLEAN
  /\ request = NoRequest
  /\ response = NoRequest
  /\ completed = {}
  /\ CheckoutIdle
  /\ input = JNull
  /\ data = <<>>
  /\ maxNestingLevel = 0
  /\ objectCount = 0
  /\ GeneratorsIdle

\* POST /api/webhook
webhook ==
  \E req \in WebhookRequests :
    /\ request' = req
    /\ paidSessions' = webhookPaid(req, webhookSecret, paidSessions)
    /\ response' = webhookResponse(req, webhookSecret)
    /\ completed' =
         IF /\ webhookResponse(req, webhookSecret).status = 200
            /\ req.event.type = "checkout.session.completed"
         THEN completed \cup {req.event.id}
         ELSE completed
    /\ UNCHANGED <<pc, webhookSecret, parserVars, generatorVars, checkoutVars>>

\* POST /api/convert, sent one of requests
convertOf(requests) ==
  \E req \in requests :
    /\ request' = req
    /\ response' = convertResponse(req, paidSessions)
    /\ UNCHANGED <<pc, paidSessions, webhookSecret, completed, parserVars,
                   generatorVars, checkoutVars>>
convert == convertOf(ConvertRequests)

ServerNext == webhook \/ convert

ServerSpec == ServerInit /\ [][ServerNext]_vars

(***************************************************************************)
(* Properties of the payment gate                                          *)
(***************************************************************************)
\* /api/convert answered a request that passes validation and holds JSON
Converted ==
  /\ response.route = "convert"
  /\ isValidRequest(request.body)
  /\ request.body.jsonInput.valid
\* the records the request's JSON flattens to
RecordsOf(req) == flatten(req.body.jsonInput.parsed)
\* the first of the texts that is not empty, or the empty text
FirstNonEmpty(texts) ==
  IF \A i \in 1..Len(texts) : texts[i] = "" THEN ""
  ELSE texts[CHOOSE i \in 1..Len(texts) :
               texts[i] # "" /\ \A h \in 1..(i - 1) : texts[h] = ""]
\* the session the request is served under
SessionOf(req) == FirstNonEmpty(<<req.query, req.body.sessionId, req.header>>)
\* the response is the converted output of the request, free of charge
IsConvertedOutput ==
  /\ response.status = 200
  /\ response.requiresPayment = FALSE
  /\ response.output # emptyOutput
  /\ response.output.generator =
       (IF request.body.outputFormat = "sql" THEN "generateSQL" ELSE "generateCSV")
  /\ response.output.data = RecordsOf(request)
\* the response asks for payment and holds no output
IsPaymentRequired ==
  /\ response.status = 200
  /\ response.requiresPayment = TRUE
  /\ response.output = emptyOutput

\* C19: the gate counts records: /api/convert answers valid JSON with
\* requiresPayment=true and empty output exactly when the JSON flattens to
\* more than 50 records and the request's session is not paid, and converts
\* every input of at most 50 records whatever the number of its lines.
C19_RecordBasedGate ==
  Converted =>
    IF Len(RecordsOf(request)) > FreeLimit /\ SessionOf(request) \notin paidSessions
    THEN IsPaymentRequired
    ELSE IsConvertedOutput

\* the request holds session id S somewhere: query, body or header
Carries(req, S) == S \in {req.query, req.body.sessionId, req.header}

\* C20 as stated: once a verified checkout.session.completed webhook for S
\* was processed, every later /api/convert request that carries S in its
\* query, its body or its x-session-id header, with valid JSON, is answered
\* with requiresPayment=false and the generated output, whatever the size
\* of the input and whatever was requested in between.
C20_PaidSessionCarried ==
  \A S \in completed : (Converted /\ Carries(request, S)) => IsConvertedOutput
\* C20, amended: the same for every request whose session id, the first
\* non-empty one of query parameter, body field and header, is S.
C20_PaidSessionFirst ==
  \A S \in completed : (Converted /\ SessionOf(request) = S) => IsConvertedOutput
\* a paid session given in the header alone unlocked an input over the limit,
\* after a webhook for another session and with a bad one in between
C20_Witness ==
  /\ completed = {"cs_1"}
  /\ response.route = "convert"
  /\ request.query = "" /\ request.body.sessionId = "" /\ request.header = "cs_1"
  /\ request.body.jsonInput = jsonText(ArrayOfObjects(FreeLimit + 1), FreeLimit + 1)
  /\ IsConvertedOutput

(***************************************************************************)
(* Further properties of the flattener                                     *)
(***************************************************************************)
\* an array with at least one object or array element
IsExplodedArray(v) ==
  v.t = "arr" /\ \E i \in 1..Len(v.items) : ~IsScalar(v.items[i])
\* the input is such an array, or an object whose one entry holds one
InputExplodes ==
  \/ IsExplodedArray(input)
  \/ input.t = "obj" /\ Len(input.entries) = 1 /\ IsExplodedArray(input.entries[1].value)
\* that array, its prefix and its array nesting level
ExplodedArray == IF input.t = "arr" THEN input ELSE input.entries[1].value
ExplodedPrefix == IF input.t = "arr" THEN "" ELSE input.entries[1].key
ExplodedLevel == IF input.t = "arr" THEN 0 ELSE 1
\* the name of the index field
IndexField(prefix, level) ==
  IF prefix = "" THEN "_index_level_" \o ToString(level) ELSE prefix \o "_index"
\* the explosion of element i (from 1) of the array, given its index
ElementRecords(i) ==
  explodeObject(ExplodedArray.items[i], ExplodedPrefix,
                <<Entry(IndexField(ExplodedPrefix, ExplodedLevel), JNum(i - 1))>>,
                IF ExplodedPrefix = "" THEN "root" ELSE ExplodedPrefix,
                ExplodedLevel + 1)
RECURSIVE ElementRecordsFrom(_)
ElementRecordsFrom(i) ==
  IF i > Len(ExplodedArray.items) THEN <<>>
  ELSE ElementRecords(i) \o ElementRecordsFrom(i + 1)

\* C23: the explosion of an array with an object or array element is the
\* concatenation, in element order, of the explosions of its elements, and
\* every record that comes from element i holds i in the index field
\* (<prefix>_index, or _index_level_<level> without a prefix), whatever the
\* element holds, a key named "index" included.
C23_ArrayExplosion ==
  (Flattened /\ InputExplodes) =>
    /\ data = ElementRecordsFrom(1)
    /\ \A i \in 1..Len(ExplodedArray.items) :
         \A r \in 1..Len(ElementRecords(i)) :
           LET record == ElementRecords(i)[r]
               field == IndexField(ExplodedPrefix, ExplodedLevel)
           IN HasOwnProperty(record, field) /\ GetField(record, field) = JNum(i - 1)

\* the base record and the nested explosions after the first n entries of
\* the input object
RECURSIVE LoopState(_)
LoopState(n) ==
  IF n = 0 THEN [baseContext |-> <<>>, nestedExplosions |-> <<>>]
  ELSE LET before == LoopState(n - 1)
       IN explodeEntry(input.entries[n], "", before.baseContext,
                       before.nestedExplosions, "", 0)
FieldNames(record) == {record[i].key : i \in 1..Len(record)}

\* C24: at an entry that holds a nested object, when the nested object's
\* explosion is one record, the base record gains the fields of that record
\* whose names it does not yet have and keeps the value of every field it
\* has; when the explosion is more than one record, the base record is left
\* as it is and the records are appended to the nested explosions.
C24_NestedObjectEntry ==
  (Flattened /\ input.t = "obj") =>
    /\ data = unionResult(LoopState(Len(input.entries)).baseContext,
                          LoopState(Len(input.entries)).nestedExplosions)
    /\ \A n \in 1..Len(input.entries) :
         input.entries[n].value.t = "obj" =>
           LET before == LoopState(n - 1)
               after == LoopState(n)
               nested == explodeObject(input.entries[n].value, input.entries[n].key,
                                       before.baseContext, "", 0)
           IN IF Len(nested) = 1
              THEN /\ after.nestedExplosions = before.nestedExplosions
                   /\ FieldNames(after.baseContext) =
                        FieldNames(before.baseContext) \cup FieldNames(nested[1])
                   /\ \A k \in FieldNames(before.baseContext) :
                        GetField(after.baseContext, k) = GetField(before.baseContext, k)
                   /\ \A k \in FieldNames(nested[1]) \ FieldNames(before.baseContext) :
                        GetField(after.baseContext, k) = GetField(nested[1], k)
              ELSE /\ Len(nested) > 1
                   /\ after.baseContext = before.baseContext
                   /\ after.nestedExplosions = before.nestedExplosions \o nested
\* the nested object's one record holds a_a = 1, which the base record has
\* as "x" already and keeps
C24_Witness ==
  /\ Flattened
  /\ input = JObj(<<Entry("a_a", JStr("x")), Entry("a", JObj(<<Entry("a", JNum(1))>>))>>)
  /\ data = << <<Entry("a_a", JStr("x"))>> >>

\* C25: when the entries of an object left k >= 1 nested explosions, the
\* result is k records in the order collected, the j-th the final base record
\* overlaid by the j-th nested explosion, whose value wins on a shared name,
\* so that every record has every field of the final base record, scalar
\* entries after the array included; with none the result is the base record.
C25_ObjectResult ==
  (Flattened /\ input.t = "obj") =>
    LET final == LoopState(Len(input.entries))
        k == Len(final.nestedExplosions)
    IN IF k >= 1
       THEN /\ Len(data) = k
            /\ \A j \in 1..k :
                 /\ FieldNames(data[j]) =
                      FieldNames(final.baseContext) \cup FieldNames(final.nestedExplosions[j])
                 /\ \A f \in FieldNames(final.nestedExplosions[j]) :
                      GetField(data[j], f) = GetField(final.nestedExplosions[j], f)
                 /\ \A f \in FieldNames(final.baseContext) \ FieldNames(final.nestedExplosions[j]) :
                      GetField(data[j], f) = GetField(final.baseContext, f)
       ELSE data = <<final.baseContext>>
\* two elements, and a scalar entry after the array that both records hold
C25_Witness ==
  /\ Flattened
  /\ input = JObj(<<Entry("a", JArr(<<JObj(<<>>), JObj(<<>>)>>)), Entry("id", JNum(1))>>)
  /\ Len(data) = 2
  /\ \A j \in 1..2 : HasOwnProperty(data[j], "id") /\ GetField(data[j], "id") = JNum(1)
  /\ GetField(data[2], "a_index") = JNum(1)

\* the sum of f over the elements of a sequence of values
RECURSIVE SumOver(_, _)
SumOver(f(_), values) ==
  IF values = <<>> THEN 0 ELSE f(Head(values)) + SumOver(f, Tail(values))
\* the leaves of a value: primitives, nulls, empty containers and arrays of
\* primitives and nulls, each counted once
RECURSIVE Leaves(_)
Leaves(v) ==
  IF IsScalar(v) THEN 1
  ELSE IF ObjectValues(v) = <<>> THEN 1
  ELSE IF v.t = "arr" /\ \A i \in 1..Len(v.items) : IsScalar(v.items[i]) THEN 1
  ELSE SumOver(Leaves, ObjectValues(v))
\* the nodes of a value: the value and the nodes of its children
RECURSIVE Nodes(_)
Nodes(v) == IF IsScalar(v) THEN 1 ELSE 1 + SumOver(Nodes, ObjectValues(v))

\* C26: flatten returns at most max(1, L) records, L the number of leaves of
\* the input, and so never more records than the input has nodes.
C26_NoBlowUp ==
  Flattened =>
    /\ Len(data) <= (IF Leaves(input) > 1 THEN Leaves(input) ELSE 1)
    /\ Len(data) <= Nodes(input)
\* four elements in two sibling arrays give four records, one per leaf
C26_Witness ==
  /\ Flattened
  /\ TwoSiblingArrays(input)
  /\ Leaves(input) = 4
  /\ Len(data) = 4

(***************************************************************************)
(* Further properties of the generators                                    *)
(***************************************************************************)
\* the literal rendered for a value fits a column of the type
FitsType(literal, value, type) ==
  \/ literal = "NULL"
  \/ type = "BOOLEAN" /\ literal \in {"TRUE", "FALSE"}
  \/ /\ type = "BIGINT"
     /\ value.t = "num" /\ IsInteger(value)
     /\ literal = Render(NumberToString(value))
  \/ /\ type = "DOUBLE PRECISION"
     /\ value.t = "num" /\ IsFinite(value)
     /\ literal = Render(NumberToString(value))
  \/ /\ type = "VARCHAR(255)"
     /\ value.t = "str" /\ TextLength(value.v) <= VarcharLength
     /\ literal = SingleQuoted(value.v)
  \/ type = "TEXT"

\* C27: every literal of every INSERT fits the type inferred for its column:
\* TRUE, FALSE or NULL in a BOOLEAN column, integer literals or NULL in a
\* BIGINT column, numeric literals or NULL in a DOUBLE PRECISION column,
\* NULL or quoted strings of at most 255 characters in a VARCHAR(255) column.
C27_TypeSoundness ==
  (CalledSQL /\ Len(data) > 0) =>
    \A j \in 1..Len(data) : \A i \in 1..Len(output.columns) :
      FitsType(output.insertStatements[j].values[i],
               Lookup(data[j], output.columns[i]),
               output.columnTypes[i])

(***************************************************************************)
(* Repeated calls: each of the three functions is called, and then called  *)
(* again with the same arguments at another moment                         *)
(***************************************************************************)
RepeatInit ==
  \/ /\ pc = "ready"
     /\ input \in DocExamples \cup PrimitiveArrayDocs \cup NestedArrayDocs
     /\ data = <<>>
     /\ maxNestingLevel = 0
     /\ objectCount = 0
     /\ GeneratorsIdle
     /\ ServerIdle
  \/ /\ pc = "records"
     /\ \/ data \in SeqsOver(KeyOrderRecords, 0, MaxRows) /\ tableName = DefaultTableName
        \/ data \in RenderRecordSets /\ tableName \in TableNames
     /\ output = NoOutput
     /\ earlier = NoOutput
     /\ input = JNull
     /\ maxNestingLevel = 0
     /\ objectCount = 0
     /\ ServerIdle

\* the result of parseAndFlattenJSON
ParsedJSON == [data |-> data, maxNestingLevel |-> maxNestingLevel, objectCount |-> objectCount]

parseAndFlattenJSONAgain_accumulating ==
  /\ pc = "flattened"
  /\ earlier' = ParsedJSON
  /\ data' = data \o flatten(input)
  /\ objectCount' = Len(data \o flatten(input))
  /\ maxNestingLevel' = getNestingLevel(input, 0)
  /\ pc' = "flattened again"
  /\ UNCHANGED <<input, tableName, output, serverVars>>
parseAndFlattenJSONAgain ==
  /\ pc = "flattened"
  /\ earlier' = ParsedJSON
  /\ LET records == flatten(input)
     IN /\ data' = records
        /\ objectCount' = Len(records)
  /\ maxNestingLevel' = getNestingLevel(input, 0)
  /\ pc' = "flattened again"
  /\ UNCHANGED <<input, tableName, output, serverVars>>

generateSQLAgain ==
  /\ pc = "sql"
  /\ earlier' = output
  /\ \E now \in Timestamps : output' = sqlOutput(data, tableName, now)
  /\ pc' = "sql again"
  /\ UNCHANGED <<parserVars, tableName, serverVars>>

generateCSVAgain ==
  /\ pc = "csv"
  /\ earlier' = output
  /\ output' = csvOutput(data)
  /\ pc' = "csv again"
  /\ UNCHANGED <<parserVars, tableName, serverVars>>

RepeatNext ==
  \/ parseAndFlattenJSON
  \/ generateSQL
  \/ generateCSV
  \/ parseAndFlattenJSONAgain
  \/ generateSQLAgain
  \/ generateCSVAgain

RepeatSpec == RepeatInit /\ [][RepeatNext]_vars

MaxCheckouts == 1

\* MemStorage.savePendingConversion
savePendingConversion(stored, pending) ==
  [id \in DOMAIN stored \cup {pending.sessionId} |->
     IF id = pending.sessionId THEN pending ELSE stored[id]]
\* MemStorage.getPendingConversion
getPendingConversion(stored, sessionId) ==
  IF sessionId \in DOMAIN stored THEN stored[sessionId] ELSE Undefined
\* MemStorage.deletePendingConversion
deletePendingConversion(stored, sessionId) ==
  [id \in DOMAIN stored \ {sessionId} |-> stored[id]]

\* checkoutSessionSchema.parse(req.body) does not throw
isValidCheckout(body) == body.mode \in {"payment", "subscription"}
\* jsonInput && outputFormat
hasConversion(body) ==
  "length" \notin DOMAIN body.jsonInput /\ body.outputFormat # ""
\* the conversion POST /api/create-checkout-session stores under sessionId
pendingConversion(body, sessionId) ==
  [sessionId |-> sessionId, jsonInput |-> body.jsonInput,
   outputFormat |-> body.outputFormat,
   tableName |-> IF body.tableName = <<>> THEN DefaultTableName ELSE body.tableName]
\* the success_url given to Stripe, with Stripe's session id in the place of
\* {CHECKOUT_SESSION_ID}
successUrl(sessionId, pendingSessionId) ==
  [pathname |-> "/success", session_id |-> sessionId,
   pending_session |-> pendingSessionId, success |-> "", canceled |-> ""]
\* the cancel_url
cancelUrl ==
  [pathname |-> "/", session_id |-> "", pending_session |-> 0,
   success |-> "", canceled |-> "true"]
\* the session stripe.checkout.sessions.create returns
checkoutSession(sessionId, pendingSessionId, mode) ==
  [id |-> sessionId, mode |-> mode,
   success_url |-> successUrl(sessionId, pendingSessionId),
   cancel_url |-> cancelUrl,
   metadata |-> [pendingSessionId |-> pendingSessionId]]

\* the result GET /api/success sends for the stored conversion pendingData
successResult(pendingData) ==
  [route |-> "success", status |-> 200,
   output |-> generatedOutput(pendingData.outputFormat,
                              flatten(pendingData.jsonInput.parsed),
                              pendingData.tableName),
   lineCount |-> lineCount(pendingData.jsonInput),
   nestingLevel |-> getNestingLevel(pendingData.jsonInput.parsed, 0),
   requiresPayment |-> FALSE]

\* how many responses with the output of each pending session were sent,
\* after one more for pendingSessionId
countResponse(sent, pendingSessionId) ==
  [id \in DOMAIN sent \cup {pendingSessionId} |->
     IF id = pendingSessionId
     THEN (IF id \in DOMAIN sent THEN sent[id] ELSE 0) + 1
     ELSE sent[id]]

(***************************************************************************)
(* The requests of the checkout                                            *)
(***************************************************************************)
\* who sends GET /api/success: each sends one request at a time
Callers == {"customer", "other"}
\* a conversion over the limit: two records on more lines than are free
LargeText == jsonText(ArrayOfObjects(2), FreeLimit + 1)
\* bodies with a conversion to keep, with JSON that does not parse, with no
\* conversion (what the payment modal sends), with no price, with a mode the
\* schema rejects
CheckoutRequests ==
  {[route |-> "create-checkout-session",
    body |-> [priceId |-> b[1], mode |-> b[2], jsonInput |-> b[3],
              outputFormat |-> b[4], tableName |-> <<>>]] :
     b \in {<<"monthly", "subscription", LargeText, "sql">>,
            <<"one-time", "payment", invalidJsonText(1), "csv">>,
            <<"monthly", "subscription", emptyText, "">>,
            <<"", "payment", emptyText, "">>,
            <<"monthly", "gift", LargeText, "sql">>}}
\* requests over the limit, with a session id or none
CheckoutConvertRequests ==
  {[route |-> "convert", query |-> "", header |-> "",
    body |-> [jsonInput |-> LargeText, outputFormat |-> "sql", tableName |-> <<>>,
              sessionId |-> b]] : b \in {"cs_1", ""}}

\* the ids Stripe may give its next session: it numbers them as it makes them,
\* those of this server and those of others
NewSessions(made, others) ==
  LET used == {c.id : c \in made} \cup others
  IN IF "cs_1" \notin used THEN {"cs_1"}
     ELSE IF "cs_2" \notin used THEN {"cs_2"}
     ELSE {}

(***************************************************************************)
(* The state machine of the checkout                                       *)
(***************************************************************************)
CheckoutInit ==
  /\ pc = "listening"
  /\ paidSessions = {}
  /\ webhookSecret \in BOOLEAN
  /\ request = NoRequest
  /\ response = NoRequest
  /\ completed = {}
  /\ stripeSecretKey \in BOOLEAN
  /\ uuids = 0
  /\ pendingConversions = <<>>
  /\ checkouts = {}
  /\ successCalls = {}
  /\ delivered = <<>>
  /\ browser = NoBrowser
  /\ input = JNull
  /\ data = <<>>
  /\ maxNestingLevel = 0
  /\ objectCount = 0
  /\ GeneratorsIdle

\* POST /api/create-checkout-session; Stripe names the session it creates
\* with an id it has not used, or the call to Stripe throws (session "")
createCheckoutSession ==
  \E req \in CheckoutRequests, session \in SessionIds \cup {""} :
    /\ uuids < MaxCheckouts
    /\ session \in NewSessions(checkouts, completed) \cup {""}
    /\ request' = req
    /\ IF ~isValidCheckout(req.body)
       THEN /\ response' = [route |-> "create-checkout-session", status |-> 400,
                            message |-> "Validation error"]
            /\ UNCHANGED <<uuids, pendingConversions, checkouts>>
       ELSE LET pendingSessionId == uuids + 1
            IN /\ uuids' = pendingSessionId
               /\ pendingConversions' =
                    IF hasConversion(req.body)
                    THEN savePendingConversion(pendingConversions,
                           pendingConversion(req.body, pendingSessionId))
                    ELSE pendingConversions
               /\ IF ~stripeSecretKey
                  THEN /\ response' = [route |-> "create-checkout-session", status |-> 503,
                                       message |-> "Payment processing is not configured"]
                       /\ UNCHANGED checkouts
                  ELSE IF req.body.priceId = ""
                  THEN /\ response' = [route |-> "create-checkout-session", status |-> 400,
                                       message |-> "Stripe price ID not configured"]
                       /\ UNCHANGED checkouts
                  ELSE IF session = ""
                  THEN /\ response' = [route |-> "create-checkout-session", status |-> 500,
                                       message |-> "Failed to create checkout session"]
                       /\ UNCHANGED checkouts
                  ELSE /\ response' = [route |-> "create-checkout-session", status |-> 200,
                                       url |-> session]
                       /\ checkouts' = checkouts \cup
                            {checkoutSession(session, pendingSessionId, req.body.mode)}
    /\ UNCHANGED <<pc, paidSessions, webhookSecret, completed, stripeSecretKey,
                   successCalls, delivered, browser, parserVars, generatorVars>>

\* GET /api/success, up to its await of storage.getPendingConversion
successGet ==
  \E caller \in Callers, pending_session \in 0..MaxCheckouts :
    /\ caller \notin {call.caller : call \in successCalls}
    /\ IF pending_session = 0
       THEN /\ request' = [route |-> "success", pending_session |-> pending_session]
            /\ response' = [route |-> "success", status |-> 400,
                            message |-> "Missing pending_session parameter"]
            /\ UNCHANGED successCalls
       ELSE /\ successCalls' = successCalls \cup
                 {[caller |-> caller, at |-> "got",
                   pendingSessionId |-> pending_session,
                   pendingData |-> getPendingConversion(pendingConversions,
                                                        pending_session)]}
            /\ UNCHANGED <<request, response>>
    /\ UNCHANGED <<pc, paidSessions, webhookSecret, completed, stripeSecretKey, uuids,
                   pendingConversions, checkouts, delivered, browser,
                   parserVars, generatorVars>>

\* GET /api/success, from the stored conversion it was given up to its await
\* of storage.deletePendingConversion
successConvert ==
  \E call \in successCalls :
    LET pendingSessionId == call.pendingSessionId
        pendingData == call.pendingData
    IN /\ call.at = "got"
       /\ IF pendingData = Undefined
          THEN /\ request' = [route |-> "success", pending_session |-> pendingSessionId]
               /\ response' = [route |-> "success", status |-> 404,
                               message |-> "Pending conversion not found"]
               /\ successCalls' = successCalls \ {call}
               /\ UNCHANGED pendingConversions
          ELSE IF ~pendingData.jsonInput.valid
          THEN /\ request' = [route |-> "success", pending_session |-> pendingSessionId]
               /\ response' = [route |-> "success", status |-> 400,
                               message |-> "Invalid JSON format"]
               /\ successCalls' = successCalls \ {call}
               /\ UNCHANGED pendingConversions
          ELSE /\ pendingConversions' =
                    deletePendingConversion(pendingConversions, pendingSessionId)
               /\ successCalls' = (successCalls \ {call}) \cup
                    {[caller |-> call.caller, at |-> "deleted",
                      pendingSessionId |-> pendingSessionId,
                      result |-> successResult(pendingData)]}
               /\ UNCHANGED <<request, response>>
       /\ UNCHANGED <<pc, paidSessions, webhookSecret, completed, stripeSecretKey,
                      uuids, checkouts, delivered, browser, parserVars, generatorVars>>

\* GET /api/success, its res.json(result)
successRespond ==
  \E call \in successCalls :
    /\ call.at = "deleted"
    /\ request' = [route |-> "success", pending_session |-> call.pendingSessionId]
    /\ response' = call.result
    /\ delivered' = countResponse(delivered, call.pendingSessionId)
    /\ successCalls' = successCalls \ {call}
    /\ UNCHANGED <<pc, paidSessions, webhookSecret, completed, stripeSecretKey,
                   uuids, pendingConversions, checkouts, browser,
                   parserVars, generatorVars>>

successRoute == successGet \/ successConvert \/ successRespond

CheckoutNext ==
  \/ webhook
  \/ convertOf(CheckoutConvertRequests)
  \/ createCheckoutSession
  \/ successRoute

CheckoutSpec == CheckoutInit /\ [][CheckoutNext]_vars

(***************************************************************************)
(* Properties of the checkout                                              *)
(***************************************************************************)
\* the pending sessions whose converted output GET /api/success has sent
Delivered == DOMAIN delivered
\* a verified checkout.session.completed webhook was processed for the
\* checkout session created together with the pending session
IsPaidFor(pendingSessionId) ==
  \E c \in checkouts :
    /\ c.metadata.pendingSessionId = pendingSessionId
    /\ c.id \in completed

\* C28: GET /api/success returns the converted output of a pending session
\* only if a signature-verified checkout.session.completed webhook for the
\* checkout session created together with that pending conversion has been
\* processed: an unpaid pending conversion is never converted and returned.
C28_ReleasedAfterPayment ==
  \A pendingSessionId \in Delivered : IsPaidFor(pendingSessionId)

\* C29: each pending conversion is delivered at most once, under every
\* interleaving of the GET /api/success requests at their await points; once
\* it was delivered it is no longer stored; a request whose stored JSON fails
\* to parse returns 400 and leaves the pending conversion stored.
C29_DeliveredOnce ==
  /\ \A pendingSessionId \in Delivered :
       /\ delivered[pendingSessionId] <= 1
       /\ pendingSessionId \notin DOMAIN pendingConversions
  /\ (/\ response.route = "success"
      /\ response.status = 400
      /\ response.message = "Invalid JSON format")
     => request.pending_session \in DOMAIN pendingConversions

\* the request is a webhook whose signature was verified against the
\* configured secret and whose event is a completed checkout
IsVerifiedCompletion(req) ==
  /\ req.route = "webhook"
  /\ req.signature # ""
  /\ webhookSecret
  /\ req.signatureValid
  /\ req.event.type = "checkout.session.completed"

\* C30: the set of paid sessions changes only by adding the session id of a
\* signature-verified checkout.session.completed event; every other webhook
\* request and every /api/convert, /api/create-checkout-session and
\* /api/success request leave it unchanged, and no id is ever removed.
C30_PaidSessionsFrame ==
  [][\/ paidSessions' = paidSessions
     \/ /\ IsVerifiedCompletion(request')
        /\ paidSessions' = paidSessions \cup {request'.event.id}]_vars

\* a session was paid, a checkout was made, a pending conversion was delivered
\* and a conversion was requested
C30_Witness ==
  /\ paidSessions = {"cs_1"}
  /\ checkouts # {}
  /\ Delivered # {}
  /\ request.route = "convert"

(***************************************************************************)
(* The customer's browser (client Converter page, payment-gate-modal):     *)
(* the effect the Converter page runs when it mounts, and its convert      *)
(* mutation                                                                *)
(*                                                                         *)
(* A URL is its pathname and the search parameters the code reads, "" for  *)
(* an absent one.  The Converter page is taken to be the page shown at     *)
(* every pathname.  localStorage is the value kept under                   *)
(* 'stripe_session_id', "" for none; isPaid is the page's state, lost when *)
(* a page is loaded.  returned is the id of the checkout session whose     *)
(* success_url the browser was last sent to, and sent the session ids its  *)
(* convert requests have carried since.                                    *)
(***************************************************************************)
Url(pathname, success, session_id, pending_session, canceled) ==
  [pathname |-> pathname, session_id |-> session_id,
   pending_session |-> pending_session, success |-> success, canceled |-> canceled]
Home == Url("/", "", "", 0, "")
\* window.history.replaceState({}, document.title, window.location.pathname)
replaceState(location) == Url(location.pathname, "", "", 0, "")

\* the effect of the Converter page on a browser that loaded location
afterEffect(b) ==
  LET sessionId == b.location.session_id
      success == b.location.success
      savedSessionId == b.localStorage
      paid == success = "true" /\ sessionId # ""
  IN [b EXCEPT
        !.mounted = TRUE,
        !.isPaid = savedSessionId # "" \/ paid,
        !.localStorage = IF paid THEN sessionId ELSE savedSessionId,
        !.location = IF paid \/ b.location.canceled = "true"
                     THEN replaceState(b.location) ELSE b.location]

\* the request convertMutation sends for conversion
convertRequest(conversion, localStorage) ==
  [route |-> "convert", query |-> "", header |-> "",
   body |-> [jsonInput |-> conversion.jsonInput,
             outputFormat |-> conversion.outputFormat,
             tableName |-> conversion.tableName, sessionId |-> localStorage]]

\* what the customer converts: under the limit and over it
BrowserConversions ==
  {[jsonInput |-> t, outputFormat |-> "sql", tableName |-> DefaultTableName] :
     t \in {jsonText(ArrayOfObjects(1), 1), LargeText}}
\* the URLs the browser is sent to: the success_url and cancel_url of a
\* checkout session, the home page, and the page with the parameters the
\* effect looks for
BrowserUrls(made) ==
  {c.success_url : c \in made} \cup {c.cancel_url : c \in made}
    \cup {Home, Url("/", "true", "cs_1", 0, "")}

BrowserInit ==
  /\ pc = "listening"
  /\ paidSessions = {}
  /\ webhookSecret \in BOOLEAN
  /\ request = NoRequest
  /\ response = NoRequest
  /\ completed = {}
  /\ stripeSecretKey \in BOOLEAN
  /\ uuids = 0
  /\ pendingConversions = <<>>
  /\ checkouts = {}
  /\ successCalls = {}
  /\ delivered = <<>>
  /\ browser = [mounted |-> FALSE, location |-> Home, localStorage |-> "",
                isPaid |-> FALSE, returned |-> "", sent |-> {}]
  /\ input = JNull
  /\ data = <<>>
  /\ maxNestingLevel = 0
  /\ objectCount = 0
  /\ GeneratorsIdle

\* the browser loads a page: Stripe sends it to the success_url after the
\* payment, or to the cancel_url, or the customer opens a URL
navigate ==
  \E url \in BrowserUrls(checkouts) :
    /\ browser' = [browser EXCEPT
         !.mounted = FALSE,
         !.location = url,
         !.isPaid = FALSE,
         !.returned = IF url.pathname = "/success" THEN url.session_id ELSE "",
         !.sent = {}]
    /\ UNCHANGED <<pc, paidSessions, webhookSecret, request, response, completed,
                   stripeSecretKey, uuids, pendingConversions, checkouts,
                   successCalls, delivered, parserVars, generatorVars>>

\* the Converter page mounts and runs its effect
useEffect ==
  /\ ~browser.mounted
  /\ browser' = afterEffect(browser)
  /\ UNCHANGED <<pc, paidSessions, webhookSecret, request, response, completed,
                 stripeSecretKey, uuids, pendingConversions, checkouts,
                 successCalls, delivered, parserVars, generatorVars>>

\* the customer converts: convertMutation's request and the server's answer
convertMutation ==
  \E conversion \in BrowserConversions :
    /\ browser.mounted
    /\ request' = convertRequest(conversion, browser.localStorage)
    /\ response' = convertResponse(request', paidSessions)
    /\ browser' = [browser EXCEPT !.sent = @ \cup {browser.localStorage}]
    /\ UNCHANGED <<pc, paidSessions, webhookSecret, completed,
                   stripeSecretKey, uuids, pendingConversions, checkouts,
                   successCalls, delivered, parserVars, generatorVars>>

BrowserNext ==
  \/ createCheckoutSession
  \/ webhook
  \/ navigate
  \/ useEffect
  \/ convertMutation

BrowserSpec == BrowserInit /\ [][BrowserNext]_vars

\* C21: after a successful payment, when the browser was sent to the
\* success_url that /api/create-checkout-session built and the Converter page
\* has mounted, the Stripe session id is stored in localStorage, the user is
\* marked as paid, and every /api/convert request the browser sends from then
\* on carries that session id.
C21_SessionStored ==
  (browser.mounted /\ browser.returned # "")
    => /\ browser.localStorage = browser.returned
       /\ browser.isPaid
       /\ browser.sent \subseteq {browser.returned}
====
